---- MODULE Spec2Model ----
(***************************************************************************)
(* A model of pythondocker's interpreter resolution and provisioning:      *)
(* PythonInstaller.install_python (the acquisition chain) and              *)
(* EnvironmentManager.create_environment / run_script (the environment     *)
(* builder), over an abstract file system, network and subprocess world.   *)
(*                                                                         *)
(* Python strings are sequences of one-character strings, so that split,   *)
(* startswith, replace and the substring test `a in b` are computed as     *)
(* Python computes them.                                                   *)
(***************************************************************************)
EXTENDS Integers, Sequences, FiniteSets, TLC

----------------------------------------------------------------------------
(* Python string operations *)

\* s.startswith(pre)
StartsWith(s, pre) == Len(pre) <= Len(s) /\ SubSeq(s, 1, Len(pre)) = pre

\* s.endswith(suf)
EndsWith(s, suf) ==
    Len(suf) <= Len(s) /\ SubSeq(s, Len(s) - Len(suf) + 1, Len(s)) = suf

\* sub in s
Contains(s, sub) ==
    \E i \in 0..(Len(s) - Len(sub)) : SubSeq(s, i + 1, i + Len(sub)) = sub

\* s.split(c), c a single character
RECURSIVE Split(_, _)
Split(s, c) ==
    IF \A i \in 1..Len(s) : s[i] # c
    THEN <<s>>
    ELSE LET i == CHOOSE k \in 1..Len(s) :
                      s[k] = c /\ \A j \in 1..(k - 1) : s[j] # c
         IN  <<SubSeq(s, 1, i - 1)>> \o Split(SubSeq(s, i + 1, Len(s)), c)

\* s.replace(old, new)
RECURSIVE Replace(_, _, _)
Replace(s, old, new) ==
    IF old = <<>> \/ Len(s) < Len(old) THEN s
    ELSE IF SubSeq(s, 1, Len(old)) = old
         THEN new \o Replace(SubSeq(s, Len(old) + 1, Len(s)), old, new)
         ELSE <<s[1]>> \o Replace(Tail(s), old, new)

UpperLetters ==
    <<"A", "B", "C", "D", "E", "F", "G", "H", "I", "J", "K", "L", "M",
      "N", "O", "P", "Q", "R", "S", "T", "U", "V", "W", "X", "Y", "Z">>

LowerLetters ==
    <<"a", "b", "c", "d", "e", "f", "g", "h", "i", "j", "k", "l", "m",
      "n", "o", "p", "q", "r", "s", "t", "u", "v", "w", "x", "y", "z">>

\* s.lower()
Lower(s) ==
    [i \in 1..Len(s) |->
        IF \E k \in 1..Len(UpperLetters) : UpperLetters[k] = s[i]
        THEN LowerLetters[CHOOSE k \in 1..Len(UpperLetters) : UpperLetters[k] = s[i]]
        ELSE s[i]]

\* s.strip(), for blanks
RECURSIVE Strip(_)
Strip(s) ==
    IF s # <<>> /\ s[1] = " " THEN Strip(Tail(s))
    ELSE IF s # <<>> /\ s[Len(s)] = " " THEN Strip(SubSeq(s, 1, Len(s) - 1))
    ELSE s

\* somelist[:n]
Take(seq, n) == SubSeq(seq, 1, IF Len(seq) < n THEN Len(seq) ELSE n)

DigitChars == <<"0", "1", "2", "3", "4", "5", "6", "7", "8", "9">>

\* str(n) for 0 <= n <= 99
Dec(n) ==
    IF n < 10 THEN <<DigitChars[n + 1]>>
    ELSE <<DigitChars[(n \div 10) + 1], DigitChars[(n % 10) + 1]>>

Dot == <<".">>

\* f"{a}.{b}"
Dotted(a, b) == a \o Dot \o b

----------------------------------------------------------------------------
(* Version identifiers and version-probe outputs of the model *)

V27 == <<"2", ".", "7">>
V311 == <<"3", ".", "1", "1">>
V312 == <<"3", ".", "1", "2">>
VPyPy311 == <<"p", "y", "p", "y", "3", ".", "1", "1">>
VJython == <<"j", "y", "t", "h", "o", "n", "2", ".", "7">>

CPythonVersions == {V27, V311}
Versions == CPythonVersions \cup {VPyPy311, VJython}

PythonSpace == <<"P", "y", "t", "h", "o", "n", " ">>

O27 == PythonSpace \o <<"2", ".", "7", ".", "1", "8">>
O311 == PythonSpace \o <<"3", ".", "1", "1", ".", "2">>
O312 == PythonSpace \o <<"3", ".", "1", "2", ".", "1">>
OPyPy == PythonSpace \o <<"3", ".", "1", "1", ".", "1", "3", " ",
                          "[", "P", "y", "P", "y", " ", "7", ".", "3", ".", "2", "0", "]">>
OEmpty == <<>>

\* a probe that raised (missing binary, timeout)
ProbeFailed == <<"!">>

NoPath == "none"

----------------------------------------------------------------------------
(* alternative_interpreters.py *)

PyPyPrefix == <<"p", "y", "p", "y">>
JythonPrefix == <<"j", "y", "t", "h", "o", "n">>

\* is_alternative_interpreter: 'pypy', 'jython' or None
IsAlternativeInterpreter(version) ==
    LET v == Strip(Lower(version))
    IN  IF StartsWith(v, PyPyPrefix) THEN "pypy"
        ELSE IF StartsWith(v, JythonPrefix) THEN "jython"
        ELSE "none"

\* the keys of PYPY_RELEASES
PyPyReleases ==
    { PyPyPrefix \o <<"3", ".", "1", "1">>, PyPyPrefix \o <<"3", ".", "1", "0">>,
      PyPyPrefix \o <<"2", ".", "7">>, PyPyPrefix \o <<"3", ".", "9">> }

\* get_pypy_url(version) is not None (every platform of the model is a
\* supported one)
HasPyPyUrl(version) ==
    LET v0 == Replace(Lower(version), <<" ">>, <<>>)
        v == IF StartsWith(v0, PyPyPrefix) THEN v0 ELSE PyPyPrefix \o v0
    IN  v \in PyPyReleases
        \/ \E key \in PyPyReleases : StartsWith(key, v) \/ StartsWith(v, key)

\* install_pypy.  The archive path is computed as
\*   version_dir / "pypy_archive" + ".zip"
\* which is (Path / str) + str and raises TypeError inside the try block:
\* the except clause returns None before any download or cache lookup.
InstallPyPy(version, f) ==
    IF ~HasPyPyUrl(version)
    THEN [ret |-> NoPath, fs |-> f, ev |-> <<>>]
    ELSE [ret |-> NoPath, fs |-> f \cup {"pypyvdir"}, ev |-> <<"mkdir">>]

\* install_jython that keeps no copy of what it has downloaded
InstallJythonNoSave(f, java, net) ==
    IF ~java
    THEN [ret |-> NoPath, fs |-> f, ev |-> <<"java">>]
    ELSE LET f1 == f \cup {"jythondir"}
         IN  IF "jar" \in f1
             THEN [ret |-> "jar", fs |-> f1, ev |-> <<"java">>]
             ELSE IF "cachejar" \in f1
             THEN [ret |-> "jar", fs |-> f1 \cup {"jar"}, ev |-> <<"java", "copy">>]
             ELSE IF net = "ok"
             THEN [ret |-> "jar", fs |-> f1 \cup {"jar"}, ev |-> <<"java", "fetch">>]
             ELSE [ret |-> NoPath, fs |-> f1, ev |-> <<"java", "fetch:failed">>]

\* install_jython(install_dir, quiet): java is the result of java_available(),
\* net the outcome of the download should one be made
InstallJython(f, java, net) ==
    IF ~java
    THEN [ret |-> NoPath, fs |-> f, ev |-> <<"java">>]
    ELSE LET f1 == f \cup {"jythondir"}
         IN  IF "jar" \in f1
             THEN [ret |-> "jar", fs |-> f1, ev |-> <<"java">>]
             ELSE IF "cachejar" \in f1
             THEN [ret |-> "jar", fs |-> f1 \cup {"jar"}, ev |-> <<"java", "copy">>]
             ELSE IF net = "ok"
             THEN [ret |-> "jar", fs |-> f1 \cup {"jar", "cachejar"},
                   ev |-> <<"java", "fetch">>]
             ELSE [ret |-> NoPath, fs |-> f1, ev |-> <<"java", "fetch:failed">>]

----------------------------------------------------------------------------
(* python_installer.py: pure parts *)

\* get_system_info()[0] for platform.system().lower()
GetSystemInfo(platform) ==
    CASE platform = "windows" -> "windows"
      [] platform = "darwin" -> "macos"
      [] platform = "linux" -> "linux"
      [] OTHER -> platform

\* known_versions: for each key the patch numbers hi, hi-1 .. lo, then the
\* key itself when bare
KnownVersions ==
    << [major |-> 2, minor |-> 0, hi |-> 1, lo |-> 1, bare |-> TRUE],
       [major |-> 2, minor |-> 1, hi |-> 3, lo |-> 1, bare |-> TRUE],
       [major |-> 2, minor |-> 2, hi |-> 3, lo |-> 1, bare |-> TRUE],
       [major |-> 2, minor |-> 3, hi |-> 7, lo |-> 1, bare |-> TRUE],
       [major |-> 2, minor |-> 4, hi |-> 6, lo |-> 1, bare |-> TRUE],
       [major |-> 2, minor |-> 5, hi |-> 6, lo |-> 1, bare |-> TRUE],
       [major |-> 2, minor |-> 6, hi |-> 9, lo |-> 1, bare |-> TRUE],
       [major |-> 2, minor |-> 7, hi |-> 18, lo |-> 10, bare |-> FALSE],
       [major |-> 3, minor |-> 0, hi |-> 1, lo |-> 1, bare |-> TRUE],
       [major |-> 3, minor |-> 1, hi |-> 5, lo |-> 1, bare |-> TRUE],
       [major |-> 3, minor |-> 2, hi |-> 6, lo |-> 1, bare |-> TRUE],
       [major |-> 3, minor |-> 3, hi |-> 7, lo |-> 0, bare |-> FALSE],
       [major |-> 3, minor |-> 4, hi |-> 10, lo |-> 0, bare |-> FALSE],
       [major |-> 3, minor |-> 5, hi |-> 10, lo |-> 0, bare |-> FALSE],
       [major |-> 3, minor |-> 6, hi |-> 15, lo |-> 0, bare |-> FALSE],
       [major |-> 3, minor |-> 7, hi |-> 17, lo |-> 0, bare |-> FALSE],
       [major |-> 3, minor |-> 8, hi |-> 20, lo |-> 0, bare |-> FALSE],
       [major |-> 3, minor |-> 9, hi |-> 25, lo |-> 0, bare |-> FALSE],
       [major |-> 3, minor |-> 10, hi |-> 19, lo |-> 0, bare |-> FALSE],
       [major |-> 3, minor |-> 11, hi |-> 14, lo |-> 0, bare |-> FALSE],
       [major |-> 3, minor |-> 12, hi |-> 12, lo |-> 0, bare |-> FALSE],
       [major |-> 3, minor |-> 13, hi |-> 12, lo |-> 0, bare |-> FALSE],
       [major |-> 3, minor |-> 14, hi |-> 3, lo |-> 0, bare |-> FALSE],
       [major |-> 3, minor |-> 15, hi |-> 0, lo |-> 0, bare |-> FALSE] >>

\* [f"{key}.{patch}" for patch in range(hi, lo - 1, -1)]
PatchList(key, hi, lo) ==
    [i \in 1..(hi - lo + 1) |-> Dotted(key, Dec(hi - i + 1))]

\* the keys of known_versions
KnownKeys ==
    { Dotted(Dec(KnownVersions[k].major), Dec(KnownVersions[k].minor)) :
        k \in 1..Len(KnownVersions) }

\* known_versions[key]
KnownList ==
    [key \in KnownKeys |->
        LET e == KnownVersions[CHOOSE k \in 1..Len(KnownVersions) :
                     Dotted(Dec(KnownVersions[k].major),
                            Dec(KnownVersions[k].minor)) = key]
        IN  PatchList(key, e.hi, e.lo) \o (IF e.bare THEN <<key>> ELSE <<>>)]

\* _find_available_versions
FindAvailableVersions(version) ==
    LET parts == Split(version, ".")
    IN  IF Len(parts) >= 3 THEN <<version>>
        ELSE IF Len(parts) = 2
        THEN LET key == Dotted(parts[1], parts[2])
             IN  IF key \in KnownKeys
                 THEN KnownList[key]
                 ELSE <<key>> \o PatchList(key, 20, 0)
        ELSE <<version>>

\* _get_download_url_for_version: the archive format of the URL, "none" for
\* None.  `system` is get_system_info()[0], which is never 'darwin'.
GetDownloadUrlForVersion(version, system) ==
    LET parts == Split(version, ".")
        major == parts[1]
    IN  IF system = "windows"
        THEN IF major = <<"2">> THEN "msi" ELSE "zip"
        ELSE IF system = "linux" THEN "tgz"
        ELSE IF system = "darwin" THEN "pkg"
        ELSE "none"

\* get_python_url: the format of the first candidate that has a URL
GetPythonUrl(version, platform) ==
    LET av == FindAvailableVersions(version)
        sys == GetSystemInfo(platform)
        ok == { i \in 1..Len(av) : GetDownloadUrlForVersion(av[i], sys) # "none" }
    IN  IF ok = {} THEN "none"
        ELSE GetDownloadUrlForVersion(av[CHOOSE i \in ok : \A j \in ok : i <= j], sys)

\* _normalize_version_for_pyenv: a full version, or <<>> for None
NormalizeVersionForPyenv(version) ==
    LET parts == Split(version, ".")
    IN  IF Len(parts) >= 2
        THEN IF parts[1] = <<"2">> /\ parts[2] = <<"7">>
             THEN <<"2", ".", "7", ".", "1", "8">>
             ELSE IF Len(parts) = 2 THEN <<>>
             ELSE version
        ELSE <<>>

\* f"{major}.{minor}" of version.split('.')[:2], the version itself when it
\* has no dot
ExpectedVersion(version) ==
    LET parts == Take(Split(version, "."), 2)
    IN  IF Len(parts) >= 2 THEN Dotted(parts[1], parts[2]) ELSE version

\* get_python_path(version) on file system f: the path (or NoPath), the file
\* system afterwards and the events of the call
GetPythonPath(version, f, java, net) ==
    LET alt == IsAlternativeInterpreter(version)
    IN  IF alt = "pypy"
        THEN [ret |-> IF "pypydir" \in f /\ "pypyexe" \in f THEN "pypyexe" ELSE NoPath,
              fs |-> f, ev |-> <<>>]
        ELSE IF alt = "jython"
        THEN InstallJython(f, java, net)
        ELSE [ret |-> IF "instexe" \in f THEN "instexe" ELSE NoPath,
              fs |-> f, ev |-> <<>>]

\* the version test of python_installed on probe output pr
InstalledVersionMatches(version, pr) ==
    IF pr = ProbeFailed THEN FALSE
    ELSE IF IsAlternativeInterpreter(version) = "pypy"
    THEN Contains(pr, Replace(version, PyPyPrefix, <<>>)) \/ Contains(pr, version)
    ELSE LET parts == Take(Split(version, "."), 2)
         IN  IF Len(parts) >= 2
             THEN Contains(pr, version) \/ Contains(pr, Dotted(parts[1], parts[2]))
             ELSE Contains(pr, version)

\* python_installed(version): o maps a runtime path to its --version output,
\* probed says whether the probe subprocess ran to its end
PythonInstalled(version, f, o, java, net, probed) ==
    LET alt == IsAlternativeInterpreter(version)
    IN  IF alt = "jython"
        THEN LET j == InstallJython(f, java, net)
             IN  [ret |-> j.ret # NoPath /\ j.ret \in j.fs, fs |-> j.fs, ev |-> j.ev]
        ELSE LET g == GetPythonPath(version, f, java, net)
             IN  IF g.ret # NoPath /\ g.ret \in f
                 THEN [ret |-> InstalledVersionMatches(version,
                                  IF probed THEN o[g.ret] ELSE ProbeFailed),
                       fs |-> f, ev |-> IF probed THEN <<"probe">> ELSE <<"probe:failed">>]
                 ELSE [ret |-> FALSE, fs |-> f, ev |-> <<>>]

----------------------------------------------------------------------------
(* State *)

VARIABLES
    world,          \* what the machine is: version asked for, platform,
                    \* java, pyenv, the version the tool itself runs under
    fs,             \* the files and directories that exist
    out,            \* runtime path -> what `<path> --version` prints
    pyenvVersions,  \* what `pyenv versions --bare` lists
    pc,             \* per invocation: where it is
    args,           \* per invocation: the arguments of the call in progress
    loc,            \* per invocation: local variables
    log,            \* per invocation: the events of the call in progress
    prev,           \* per invocation: summary of the last finished call
    envTarget,      \* launcher in the environment -> the runtime it starts
    call            \* a library function applied on its own: its input and result

vars == <<world, fs, out, pyenvVersions, pc, args, loc, log, prev, envTarget, call>>

Procs == {1, 2}

\* the runtime paths a call can resolve to, or an environment can launch
RuntimePaths == {"instexe", "selfexe", "pyexe", "sysexe", "pyenvexe", "pypyexe", "jar", "stale"}

NetOutcomes == {"ok", "404", "http", "urlerr"}

Append2(p, ev) == [log EXCEPT ![p] = @ \o ev]

\* a download that was attempted, and how it ended
FetchEvent(net) == IF net = "ok" THEN "fetch" ELSE "fetch:failed"

Count(seq, e) == Cardinality({i \in 1..Len(seq) : seq[i] = e})

InitLoc ==
    [caller |-> "top", result |-> "none", path |-> NoPath,
     chain |-> <<>>, cand |-> 0, force_recreate |-> FALSE, env |-> "none"]

InitArgs == [offline |-> FALSE, use_pyenv |-> TRUE, quiet |-> FALSE, force |-> FALSE]

NoCall == [op |-> "none"]

\* no library function has been applied on its own
NotCalled == [fn |-> "none"]

----------------------------------------------------------------------------
(* PythonInstaller.install_python, one action per method of the chain *)

\* the call itself
InstallPython(p) ==
    /\ pc[p] = "idle"
    /\ \E off \in BOOLEAN, pe \in BOOLEAN :
         args' = [args EXCEPT ![p] = [InitArgs EXCEPT !.offline = off, !.use_pyenv = pe]]
    /\ loc' = [loc EXCEPT ![p] = InitLoc]
    /\ log' = [log EXCEPT ![p] = <<>>]
    /\ pc' = [pc EXCEPT ![p] = "i_installed"]
    /\ UNCHANGED <<world, fs, out, pyenvVersions, prev, envTarget>>
    /\ UNCHANGED call


\* `return python_path`
ReturnPath(p, path) ==
    /\ loc' = [loc EXCEPT ![p].result = "path", ![p].path = path]
    /\ pc' = [pc EXCEPT ![p] = "i_ret"]

\* `raise RuntimeError(...)`, kind naming the message
RaiseError(p, kind) ==
    /\ loc' = [loc EXCEPT ![p].result = kind, ![p].path = NoPath]
    /\ pc' = [pc EXCEPT ![p] = "i_ret"]

\* Method 1 without its `return python_path`
CheckInstalledFallsThrough(p) ==
    /\ pc[p] = "i_installed"
    /\ \E net \in {"ok", "urlerr"}, probed \in BOOLEAN :
         LET r == PythonInstalled(world.version, fs, out, world.java, net, probed)
         IN  /\ fs' = r.fs
             /\ log' = Append2(p, <<"step:installed">> \o r.ev)
             /\ pc' = [pc EXCEPT ![p] =
                         IF IsAlternativeInterpreter(world.version) = "none"
                         THEN "i_system" ELSE "i_alt"]
    /\ UNCHANGED <<world, out, pyenvVersions, args, loc, prev, envTarget>>
    /\ UNCHANGED call


\* Method 1: python_installed, then get_python_path
CheckInstalled(p) ==
    /\ pc[p] = "i_installed"
    /\ \E net \in {"ok", "urlerr"}, probed \in BOOLEAN :
         LET r == PythonInstalled(world.version, fs, out, world.java, net, probed)
             g == GetPythonPath(world.version, r.fs, world.java, net)
             alt == IsAlternativeInterpreter(world.version)
         IN  IF r.ret
             THEN /\ fs' = g.fs
                  /\ log' = Append2(p, <<"step:installed">> \o r.ev \o g.ev)
                  /\ IF g.ret # NoPath
                     THEN ReturnPath(p, g.ret)
                     ELSE /\ pc' = [pc EXCEPT ![p] =
                                      IF alt = "none" THEN "i_system" ELSE "i_alt"]
                          /\ UNCHANGED loc
             ELSE /\ fs' = r.fs
                  /\ log' = Append2(p, <<"step:installed">> \o r.ev)
                  /\ pc' = [pc EXCEPT ![p] =
                              IF alt = "none" THEN "i_system" ELSE "i_alt"]
                  /\ UNCHANGED loc
    /\ UNCHANGED <<world, out, pyenvVersions, args, prev, envTarget>>
    /\ UNCHANGED call


\* PyPy and Jython
AlternativeInterpreter(p) ==
    /\ pc[p] = "i_alt"
    /\ LET alt == IsAlternativeInterpreter(world.version)
       IN  \E net \in {"ok", "urlerr"} :
             IF args[p].offline
             THEN LET g == GetPythonPath(world.version, fs, world.java, net)
                  IN  /\ fs' = g.fs
                      /\ log' = Append2(p, <<"step:alt">> \o g.ev)
                      /\ IF g.ret # NoPath /\ g.ret \in g.fs
                         THEN ReturnPath(p, g.ret)
                         ELSE RaiseError(p, IF alt = "pypy" THEN "pypy_offline"
                                            ELSE "jython_offline")
             ELSE LET i == IF alt = "pypy" THEN InstallPyPy(world.version, fs)
                           ELSE InstallJython(fs, world.java, net)
                  IN  /\ fs' = i.fs
                      /\ log' = Append2(p, <<"step:alt">> \o i.ev)
                      /\ IF i.ret # NoPath
                         THEN ReturnPath(p, i.ret)
                         ELSE RaiseError(p, IF alt = "pypy" THEN "pypy_failed"
                                            ELSE "jython_failed")
    /\ UNCHANGED <<world, out, pyenvVersions, args, prev, envTarget>>
    /\ UNCHANGED call


\* _find_system_python: the current interpreter when it is of the target
\* version, then (Windows) the py launcher, then pythonX.Y on PATH; each is
\* accepted only when its --version output contains the target.  ran[x] says
\* whether the probes of x ran to their end.
FindSystemPython(version, f, o, platform, selfver, ran) ==
    LET target == ExpectedVersion(version)
    IN  IF selfver = target /\ ran["selfexe"] /\ Contains(o["selfexe"], target)
        THEN "selfexe"
        ELSE IF platform = "windows" /\ "pyexe" \in f /\ ran["pyexe"]
                /\ Contains(o["pyexe"], target)
        THEN "pyexe"
        ELSE IF "sysexe" \in f /\ ran["sysexe"] /\ Contains(o["sysexe"], target)
        THEN "sysexe"
        ELSE NoPath

SystemCandidates == {"selfexe", "pyexe", "sysexe"}

\* Method 2 taking whatever the discovery names, no version probe at all
SystemDiscoveryByName(p) ==
    /\ pc[p] = "i_system"
    /\ \E sp \in SystemCandidates \cup {NoPath} :
         /\ sp # NoPath => sp \in fs
         /\ sp = "pyexe" => world.platform = "windows"
         /\ IF sp # NoPath
            THEN /\ log' = Append2(p, <<"step:system">>)
                 /\ ReturnPath(p, sp)
            ELSE /\ log' = Append2(p, <<"step:system">>)
                 /\ pc' = [pc EXCEPT ![p] = "i_pyenv"]
                 /\ UNCHANGED loc
    /\ UNCHANGED <<world, fs, out, pyenvVersions, args, prev, envTarget>>
    /\ UNCHANGED call

\* Method 2: system discovery, re-verified by one more probe
SystemDiscovery(p) ==
    /\ pc[p] = "i_system"
    /\ \E ran \in [SystemCandidates -> BOOLEAN], probed \in BOOLEAN :
         LET sp == FindSystemPython(world.version, fs, out, world.platform,
                                    world.selfver, ran)
             expected == ExpectedVersion(world.version)
         IN  IF sp # NoPath
             THEN /\ log' = Append2(p, <<"step:system", "probe",
                                         IF probed THEN "probe" ELSE "probe:failed">>)
                  /\ IF probed /\ Contains(out[sp], expected)
                     THEN ReturnPath(p, sp)
                     ELSE /\ pc' = [pc EXCEPT ![p] = "i_pyenv"]
                          /\ UNCHANGED loc
             ELSE /\ log' = Append2(p, <<"step:system">>)
                  /\ pc' = [pc EXCEPT ![p] = "i_pyenv"]
                  /\ UNCHANGED loc
    /\ UNCHANGED <<world, fs, out, pyenvVersions, args, prev, envTarget>>
    /\ UNCHANGED call


\* PyenvManager.version_installed
PyenvVersionInstalled(pv, listed) ==
    \E installed \in listed : installed = pv \/ StartsWith(installed, pv)

\* PyenvManager.get_python_path
PyenvGetPythonPath(pv, listed, f) ==
    IF PyenvVersionInstalled(pv, listed) /\ "pyenvexe" \in f
    THEN "pyenvexe" ELSE NoPath

\* Method 3 and 3b: pyenv
PyenvStep(p) ==
    /\ pc[p] = "i_pyenv"
    /\ LET pv == NormalizeVersionForPyenv(world.version)
       IN  IF args[p].use_pyenv /\ world.pyenv /\ pv # <<>>
           THEN IF PyenvVersionInstalled(pv, pyenvVersions)
                THEN LET path == PyenvGetPythonPath(pv, pyenvVersions, fs)
                     IN  /\ log' = Append2(p, <<"step:pyenv", "pyenv:versions">>)
                         /\ IF path # NoPath
                            THEN ReturnPath(p, path)
                            ELSE /\ pc' = [pc EXCEPT ![p] = "i_download"]
                                 /\ UNCHANGED loc
                         /\ UNCHANGED <<fs, pyenvVersions>>
                ELSE IF ~args[p].offline
                THEN \E built \in BOOLEAN :
                       /\ log' = Append2(p, <<"step:pyenv", "pyenv:versions",
                                              "pyenv:install">>)
                       /\ IF built
                          THEN /\ pyenvVersions' = pyenvVersions \cup {pv}
                               /\ fs' = fs \cup {"pyenvexe"}
                               /\ ReturnPath(p, "pyenvexe")
                          ELSE /\ pc' = [pc EXCEPT ![p] = "i_download"]
                               /\ UNCHANGED <<fs, pyenvVersions, loc>>
                ELSE /\ log' = Append2(p, <<"step:pyenv", "pyenv:versions">>)
                     /\ pc' = [pc EXCEPT ![p] = "i_download"]
                     /\ UNCHANGED <<fs, pyenvVersions, loc>>
           ELSE /\ pc' = [pc EXCEPT ![p] = "i_download"]
                /\ UNCHANGED <<fs, pyenvVersions, loc, log>>
    /\ UNCHANGED <<world, out, args, prev, envTarget>>
    /\ UNCHANGED call


\* what a freshly unpacked CPython `ver` prints for --version.  Every test the
\* code makes on it reads major.minor only, so the patch level printed is the
\* one of the model's outputs for that major.minor.
ReportedBy(ver) ==
    LET mm == ExpectedVersion(ver)
    IN  IF mm = V27 THEN O27 ELSE IF mm = V311 THEN O311 ELSE PythonSpace \o ver

\* _download_and_extract_zip on `first`, and the zip branch of
\* _try_alternative_downloads otherwise: res is "true", "false", or "next"
\* (go on with the following candidate)
DownloadZip(ver, first, f, o, net, extracted) ==
    IF net = "ok"
    THEN IF extracted
         THEN [res |-> "true", fs |-> (f \ {"archive"}) \cup {"instexe"},
               out |-> [o EXCEPT !["instexe"] = ReportedBy(ver)]]
         ELSE [res |-> "false", fs |-> f \cup {"archive"}, out |-> o]
    ELSE IF first
    THEN [res |-> IF net = "404" THEN "next" ELSE "false", fs |-> f, out |-> o]
    ELSE [res |-> "next", fs |-> f, out |-> o]

MsiOutcomes == {"exe", "subdir", "noexe", "failed"}

\* _install_msi_python: msi is what msiexec did
InstallMsiPython(ver, platform, f, o, net, msi) ==
    IF platform # "windows" THEN [res |-> "false", fs |-> f, out |-> o]
    ELSE IF net = "ok"
    THEN IF msi = "exe"
         THEN [res |-> "true", fs |-> (f \ {"msitmp"}) \cup {"instexe"},
               out |-> [o EXCEPT !["instexe"] = ReportedBy(ver)]]
         ELSE [res |-> IF msi = "subdir" THEN "true" ELSE "false",
               fs |-> f \ {"msitmp"}, out |-> o]
    ELSE [res |-> IF net = "404" THEN "next" ELSE "false",
          fs |-> f \cup {"msitmp"}, out |-> o]

\* _download_and_extract_source: never True
DownloadSource(ver, f, o, net, extracted) ==
    IF net = "ok"
    THEN [res |-> "false",
          fs |-> IF extracted THEN f \ {"archive"} ELSE f \cup {"archive"},
          out |-> o]
    ELSE [res |-> "false", fs |-> f, out |-> o]

\* what install_python does with the result of download_and_install_python
AfterDownload(p, d) ==
    /\ fs' = d.fs
    /\ out' = d.out
    /\ IF d.res = "true" /\ "instexe" \in d.fs
       THEN ReturnPath(p, "instexe")
       ELSE /\ pc' = [pc EXCEPT ![p] = "i_raise"]
            /\ UNCHANGED loc

\* Method 4: download_and_install_python, the first candidate
DownloadAndInstallPython(p) ==
    /\ pc[p] = "i_download"
    /\ IF args[p].offline
       THEN /\ pc' = [pc EXCEPT ![p] = "i_raise"]
            /\ UNCHANGED <<fs, out, loc, log>>
       ELSE LET url == GetPythonUrl(world.version, world.platform)
                ver == FindAvailableVersions(world.version)[1]
                f1 == fs \cup {"instdir"}
            IN  IF url \notin {"msi", "zip", "tgz"}
                THEN /\ log' = Append2(p, <<"step:download">>)
                     /\ fs' = IF url = "none" THEN fs ELSE f1
                     /\ pc' = [pc EXCEPT ![p] = "i_raise"]
                     /\ UNCHANGED <<out, loc>>
                ELSE \E net \in NetOutcomes,
                        extracted \in (IF url = "msi" THEN {TRUE} ELSE BOOLEAN),
                        msi \in (IF url = "msi" THEN MsiOutcomes ELSE {"exe"}) :
                       LET d == IF url = "msi"
                                THEN InstallMsiPython(world.version, world.platform,
                                                      f1, out, net, msi)
                                ELSE IF url = "zip"
                                THEN DownloadZip(world.version, TRUE, f1, out, net,
                                                 extracted)
                                ELSE DownloadSource(world.version, f1, out, net,
                                                    extracted)
                       IN  /\ log' = Append2(p, <<"step:download", FetchEvent(net)>>)
                           /\ IF d.res = "next"
                              THEN /\ fs' = d.fs
                                   /\ out' = d.out
                                   /\ loc' = [loc EXCEPT ![p].chain = world.version,
                                                         ![p].cand = 2]
                                   /\ pc' = [pc EXCEPT ![p] = "i_try_alt"]
                              ELSE AfterDownload(p, d)
    /\ UNCHANGED <<world, pyenvVersions, args, prev, envTarget>>
    /\ UNCHANGED call


\* _try_alternative_downloads: one turn of its loop over available_versions[1:]
TryAlternativeDownloads(p) ==
    /\ pc[p] = "i_try_alt"
    /\ LET av == FindAvailableVersions(loc[p].chain)
           i == loc[p].cand
       IN  IF i > Len(av)
           THEN /\ pc' = [pc EXCEPT ![p] = "i_raise"]
                /\ UNCHANGED <<fs, out, loc, log>>
           ELSE LET url == GetDownloadUrlForVersion(av[i], GetSystemInfo(world.platform))
                IN  IF url \notin {"msi", "zip"}
                    THEN /\ loc' = [loc EXCEPT ![p].cand = i + 1]
                         /\ UNCHANGED <<fs, out, pc, log>>
                    ELSE \E net \in NetOutcomes,
                            extracted \in (IF url = "msi" THEN {TRUE} ELSE BOOLEAN),
                            msi \in (IF url = "msi" THEN MsiOutcomes ELSE {"exe"}) :
                           LET d == IF url = "msi"
                                    THEN InstallMsiPython(av[i], world.platform, fs,
                                                          out, net, msi)
                                    ELSE DownloadZip(av[i], FALSE, fs, out, net,
                                                     extracted)
                           IN  /\ log' = Append2(p, <<FetchEvent(net)>>)
                               /\ IF d.res = "next"
                                  THEN /\ fs' = d.fs
                                       /\ out' = d.out
                                       /\ loc' = IF url = "msi"
                                                 THEN [loc EXCEPT ![p].chain = av[i],
                                                                  ![p].cand = 2]
                                                 ELSE [loc EXCEPT ![p].cand = i + 1]
                                       /\ UNCHANGED pc
                                  ELSE AfterDownload(p, d)
    /\ UNCHANGED <<world, pyenvVersions, args, prev, envTarget>>
    /\ UNCHANGED call


\* the RuntimeError at the end of install_python
\* what the RuntimeError raised at the end of the chain carries: the version
\* asked for and, outside offline mode, a fixed remediation text; it lists no
\* method
UnavailableMessage(version, offline) ==
    [version |-> version, methods |-> <<>>, remediation |-> ~offline]

RaiseUnavailable(p) ==
    /\ pc[p] = "i_raise"
    /\ RaiseError(p, IF args[p].offline THEN "offline" ELSE "unavailable")
    /\ UNCHANGED <<world, fs, out, pyenvVersions, args, log, prev, envTarget>>
    /\ UNCHANGED call


\* install_python called on its own has returned or raised
InstallDone(p) ==
    /\ pc[p] = "i_ret"
    /\ loc[p].caller = "top"
    /\ pc' = [pc EXCEPT ![p] = "idle"]
    /\ args' = [args EXCEPT ![p] = InitArgs]
    /\ loc' = [loc EXCEPT ![p] = InitLoc]
    /\ log' = [log EXCEPT ![p] = <<>>]
    /\ UNCHANGED <<world, fs, out, pyenvVersions, prev, envTarget>>
    /\ UNCHANGED call


----------------------------------------------------------------------------
(* The machines the model starts on *)

\* the full version pyenv lists for a major.minor of the model
PyenvFull(v) ==
    IF v = V27 THEN <<"2", ".", "7", ".", "1", "8">>
    ELSE v \o <<".", "9">>

\* the output of a runtime of version v
OutputOf(v) == IF v = V27 THEN O27 ELSE IF v = V311 THEN O311 ELSE O312

\* some output that does not name version v
OtherThan(v) == IF v = V27 THEN O311 ELSE O27

BlankOut == [x \in RuntimePaths |-> OEmpty]

\* what is at a place: nothing, a runtime of the version asked for, or a
\* runtime that reports another version
Found == {"absent", "right", "wrong"}

Reports(found, v) ==
    IF found = "right" THEN OutputOf(v)
    ELSE IF found = "wrong" THEN OtherThan(v) ELSE OEmpty

\* machines for a CPython request: an installed copy, a pythonX.Y on PATH, a
\* py launcher entry (Windows), pyenv (absent, present, present and listing
\* the version), and the version the tool itself runs under
CPythonWorlds ==
    { [world |-> [version |-> v, platform |-> pl, java |-> FALSE,
                  pyenv |-> (pe # "absent"), selfver |-> sv],
       fs |-> {"selfexe"}
              \cup (IF inst # "absent" THEN {"instdir", "instexe"} ELSE {})
              \cup (IF sys # "absent" THEN {"sysexe"} ELSE {})
              \cup (IF py # "absent" THEN {"pyexe"} ELSE {})
              \cup (IF pe = "listed" THEN {"pyenvexe"} ELSE {}),
       out |-> [BlankOut EXCEPT !["selfexe"] = OutputOf(sv),
                                !["instexe"] = Reports(inst, v),
                                !["sysexe"] = Reports(sys, v),
                                !["pyexe"] = Reports(py, v),
                                !["pyenvexe"] = IF pe = "listed" THEN OutputOf(v)
                                                ELSE OEmpty],
       pyenvVersions |-> IF pe = "listed" THEN {PyenvFull(v)} ELSE {}] :
      v \in CPythonVersions,
      pl \in {"linux", "darwin", "windows"},
      sv \in {V311, V312},
      pe \in {"absent", "present", "listed"},
      inst \in Found,
      sys \in Found,
      py \in Found }

\* machines for a Jython request: java, the jar, the cached jar
JythonWorlds ==
    { [world |-> [version |-> VJython, platform |-> "linux", java |-> j,
                  pyenv |-> FALSE, selfver |-> V311],
       fs |-> {"selfexe"}
              \cup (IF jar THEN {"jythondir", "jar"} ELSE {})
              \cup (IF cached THEN {"cachejar"} ELSE {}),
       out |-> [BlankOut EXCEPT !["selfexe"] = O311],
       pyenvVersions |-> {}] :
      j \in BOOLEAN, jar \in BOOLEAN, cached \in BOOLEAN }

\* machines for a PyPy request: an unpacked PyPy (absent, or reporting some
\* version)
PyPyWorlds ==
    { [world |-> [version |-> VPyPy311, platform |-> pl, java |-> FALSE,
                  pyenv |-> FALSE, selfver |-> V311],
       fs |-> {"selfexe"}
              \cup (IF pypy # OEmpty THEN {"pypyvdir", "pypydir", "pypyexe"} ELSE {}),
       out |-> [BlankOut EXCEPT !["selfexe"] = O311, !["pypyexe"] = pypy],
       pyenvVersions |-> {}] :
      pl \in {"linux", "windows"}, pypy \in {OEmpty, OPyPy, O312} }

Worlds ==
    {w \in CPythonWorlds :
        /\ "pyexe" \in w.fs => w.world.platform = "windows"
        /\ w.world.version = V27 => w.world.selfver = V311}
        \cup JythonWorlds \cup PyPyWorlds

InitProcs ==
    /\ pc = [p \in Procs |-> "idle"]
    /\ args = [p \in Procs |-> InitArgs]
    /\ loc = [p \in Procs |-> InitLoc]
    /\ log = [p \in Procs |-> <<>>]
    /\ prev = [p \in Procs |-> NoCall]

Launchers == {"envexe", "envbat"}

EnvFiles == {"envdir", "envexe", "envbat"}

NoTarget == [l \in Launchers |-> NoPath]

InitInstall ==
    /\ \E w \in Worlds :
         /\ world = w.world
         /\ fs = w.fs
         /\ out = w.out
         /\ pyenvVersions = w.pyenvVersions
    /\ envTarget = NoTarget
    /\ InitProcs
    /\ call = NotCalled

InstallStep(p) ==
    \/ InstallPython(p)
    \/ CheckInstalled(p)
    \/ AlternativeInterpreter(p)
    \/ SystemDiscovery(p)
    \/ PyenvStep(p)
    \/ DownloadAndInstallPython(p)
    \/ TryAlternativeDownloads(p)
    \/ RaiseUnavailable(p)
    \/ InstallDone(p)

NextInstall == InstallStep(1)

\* one invocation calling install_python again and again
SpecInstall == InitInstall /\ [][NextInstall]_vars

----------------------------------------------------------------------------
(* The acquisition chain: properties *)

HasEvent(p, e) == \E i \in 1..Len(log[p]) : log[p][i] = e

StepMarkers == {"step:installed", "step:alt", "step:system", "step:pyenv", "step:download"}

\* the methods attempted so far by the call in progress, in order
Steps(p) == SelectSeq(log[p], LAMBDA e : e \in StepMarkers)

LastStep(p) == IF Steps(p) = <<>> THEN "none" ELSE Steps(p)[Len(Steps(p))]

Rank(step) ==
    CASE step = "step:installed" -> 1
      [] step = "step:alt" -> 2
      [] step = "step:system" -> 2
      [] step = "step:pyenv" -> 3
      [] step = "step:download" -> 4

Fetches(p) == Count(log[p], "fetch") + Count(log[p], "fetch:failed")

OfflineErrors == {"offline", "pypy_offline", "jython_offline"}

\* the version is installed: what the installed check looks for is there and
\* reports the version asked for
AlreadyInstalled ==
    CASE IsAlternativeInterpreter(world.version) = "jython" ->
            world.java /\ "jar" \in fs
      [] IsAlternativeInterpreter(world.version) = "pypy" ->
            /\ {"pypydir", "pypyexe"} \subseteq fs
            /\ InstalledVersionMatches(world.version, out["pypyexe"])
      [] OTHER ->
            /\ "instexe" \in fs
            /\ InstalledVersionMatches(world.version, out["instexe"])

\* C1: in offline mode install_python attempts no download and no pyenv
\* install, for CPython, PyPy and Jython alike, and when it does not return a
\* path it raises with an offline-specific message.
C1_OfflineNeverDownloads ==
    \A p \in Procs :
        args[p].offline =>
            /\ Fetches(p) = 0
            /\ ~HasEvent(p, "pyenv:install")
            /\ (pc[p] = "i_ret" /\ loc[p].result # "path"
                    => loc[p].result \in OfflineErrors)

\* C2 (state part): the methods are attempted in the order installed check,
\* system discovery (or the alternative-runtime branch), pyenv, direct
\* download, none twice; and a call that returned a path returned it from the
\* last method it attempted.
C2_OrderedSteps ==
    \A p \in Procs :
        /\ \A i, j \in 1..Len(Steps(p)) :
              i < j => Rank(Steps(p)[i]) < Rank(Steps(p)[j])
        /\ (pc[p] = "i_ret" /\ loc[p].result = "path") =>
              CASE loc[p].path \in SystemCandidates -> LastStep(p) = "step:system"
                [] loc[p].path = "pyenvexe" -> LastStep(p) = "step:pyenv"
                [] loc[p].path = "instexe" ->
                      LastStep(p) \in {"step:installed", "step:download"}
                [] OTHER -> LastStep(p) \in {"step:installed", "step:alt"}

\* C2 (step part): when the version is already installed and its probe runs,
\* the installed check returns at once, without any download.
C2_InstalledReturnsAtOnce ==
    \A p \in Procs :
        (/\ pc[p] = "i_installed"
         /\ AlreadyInstalled
         /\ pc'[p] # "i_installed"
         /\ ~(\E i \in 1..Len(log'[p]) : log'[p][i] = "probe:failed"))
        => (/\ pc'[p] = "i_ret"
            /\ loc'[p].result = "path"
            /\ log'[p] \in {<<"step:installed", "probe">>, <<"step:installed", "java", "java">>}
            /\ fs' = fs)

\* C2: install_python attempts its methods in the fixed order, each
\* short-circuiting on success; an already installed version is returned
\* immediately with no network call.
C2_ChainShortCircuits ==
    []C2_OrderedSteps /\ [][C2_InstalledReturnsAtOnce]_vars

\* C2 witness: pyenv yielded the path after the installed check and system
\* discovery failed, and nothing was downloaded.
C2_Witness ==
    /\ pc[1] = "i_ret"
    /\ loc[1].path = "pyenvexe"
    /\ Steps(1) = <<"step:installed", "step:system", "step:pyenv">>
    /\ Fetches(1) = 0

\* C3: the installed check only looks at the file system and probes a
\* version at most once; it downloads nothing and copies nothing into the
\* installation root.
C3_InstalledCheckIsReadOnly ==
    \A p \in Procs :
        Steps(p) = <<"step:installed">> =>
            /\ Fetches(p) = 0
            /\ ~HasEvent(p, "copy")
            /\ Count(log[p], "probe") + Count(log[p], "probe:failed") <= 1

\* C9: the direct-download step gives up right after a failed download only
\* when that download was the last candidate's.
C9_FailedDownloadAdvances ==
    \A p \in Procs :
        (/\ pc[p] = "i_raise"
         /\ log[p] # <<>>
         /\ log[p][Len(log[p])] = "fetch:failed")
        => Fetches(p) = Len(FindAvailableVersions(world.version))

\* C10: with pyenv available and the earlier methods failed, pyenv is asked
\* for the version, whatever its major.minor, and when the version is not
\* listed and the mode is not offline an installation is requested.
C10_PyenvQueriedForEveryVersion ==
    \A p \in Procs :
        (/\ pc[p] \in {"i_download", "i_try_alt", "i_raise"}
         /\ IsAlternativeInterpreter(world.version) = "none"
         /\ args[p].use_pyenv
         /\ world.pyenv)
        => /\ HasEvent(p, "pyenv:versions")
           /\ (~args[p].offline => HasEvent(p, "pyenv:install"))


----------------------------------------------------------------------------
(* EnvironmentManager.create_environment, one action per step *)

\* get_python_executable: python.bat before python.exe on Windows
GetPythonExecutable(f, platform) ==
    IF platform = "windows"
    THEN IF "envbat" \in f THEN "envbat"
         ELSE IF "envexe" \in f THEN "envexe" ELSE "envbat"
    ELSE "envexe"

\* what `<launcher> --version` prints
LauncherOutput(l) == IF envTarget[l] = NoPath THEN OEmpty ELSE out[envTarget[l]]

\* `return env_dir`, or an exception leaving create_environment
EnvReturn(p, res) ==
    /\ loc' = [loc EXCEPT ![p].env = res, ![p].chain = <<>>, ![p].cand = 0]
    /\ pc' = [pc EXCEPT ![p] = "e_ret"]

\* shutil.rmtree(env_dir)
RemoveTree(f) == f \ EnvFiles

\* entering create_environment; Jython goes straight to install_python
Enter(p, force, quiet, off) ==
    LET jython == IsAlternativeInterpreter(world.version) = "jython"
    IN  /\ args' = [args EXCEPT ![p] = [offline |-> off, use_pyenv |-> ~jython,
                                        quiet |-> quiet, force |-> force]]
        /\ loc' = [loc EXCEPT ![p] =
                     [InitLoc EXCEPT !.caller = IF jython THEN "jython" ELSE "env",
                                     !.force_recreate = force]]
        /\ pc' = [pc EXCEPT ![p] = IF jython THEN "i_installed" ELSE "e_check"]
        /\ log' = [log EXCEPT ![p] = IF jython THEN <<"resolve">> ELSE <<>>]
        /\ UNCHANGED <<world, fs, out, pyenvVersions, prev, envTarget>>

\* create_environment called with whatever arguments
CreateEnvironment(p) ==
    /\ pc[p] = "idle"
    /\ \E force \in BOOLEAN, quiet \in BOOLEAN, off \in BOOLEAN :
         Enter(p, force, quiet, off)
    /\ UNCHANGED call


\* run_script: create_environment(force_recreate=False), then the launcher
RunScript(p) ==
    /\ pc[p] = "idle"
    /\ \E quiet \in BOOLEAN, off \in BOOLEAN : Enter(p, FALSE, quiet, off)
    /\ UNCHANGED call


\* CheckExisting taking every directory for one to build in
CheckExistingNeverProbes(p) ==
    /\ pc[p] = "e_check"
    /\ log' = Append2(p, IF "envdir" \in fs THEN <<"env:exists">> ELSE <<>>)
    /\ pc' = [pc EXCEPT ![p] = "e_resolve"]
    /\ UNCHANGED <<world, fs, out, pyenvVersions, args, loc, prev, envTarget>>
    /\ UNCHANGED call


\* `if env_dir.exists() and not force_recreate:` and the launcher lookup
CheckExisting(p) ==
    /\ pc[p] = "e_check"
    /\ LET exe == GetPythonExecutable(fs, world.platform)
       IN  /\ log' = Append2(p, IF "envdir" \in fs THEN <<"env:exists">> ELSE <<>>)
           /\ pc' = [pc EXCEPT ![p] =
                       IF "envdir" \in fs /\ ~loc[p].force_recreate /\ exe \in fs
                       THEN "e_probe" ELSE "e_resolve"]
    /\ UNCHANGED <<world, fs, out, pyenvVersions, args, loc, prev, envTarget>>
    /\ UNCHANGED call


\* the version probe of the existing environment
ProbeExisting(p) ==
    /\ pc[p] = "e_probe"
    /\ \E ran \in BOOLEAN :
         LET exe == GetPythonExecutable(fs, world.platform)
             good == /\ ran
                     /\ exe \in fs
                     /\ Contains(Strip(LauncherOutput(exe)), ExpectedVersion(world.version))
         IN  IF good
             THEN /\ log' = Append2(p, <<"env:reused">>)
                  /\ EnvReturn(p, "ok")
             ELSE /\ log' = Append2(p, IF ran /\ exe \in fs THEN <<"env:mismatch">>
                                        ELSE <<"env:unprobed">>)
                  /\ loc' = [loc EXCEPT ![p].force_recreate = TRUE]
                  /\ pc' = [pc EXCEPT ![p] = "e_remove"]
    /\ UNCHANGED <<world, fs, out, pyenvVersions, args, prev, envTarget>>
    /\ UNCHANGED call


\* `if force_recreate and not quiet:` with the rmtree under it
RemoveStale(p) ==
    /\ pc[p] = "e_remove"
    /\ IF loc[p].force_recreate /\ ~args[p].quiet
       THEN IF "envdir" \in fs
            THEN /\ fs' = RemoveTree(fs)
                 /\ envTarget' = NoTarget
                 /\ log' = Append2(p, <<"rmtree">>)
                 /\ pc' = [pc EXCEPT ![p] = "e_resolve"]
                 /\ UNCHANGED loc
            ELSE /\ EnvReturn(p, "error:rmtree")
                 /\ UNCHANGED <<fs, envTarget, log>>
       ELSE /\ pc' = [pc EXCEPT ![p] = "e_resolve"]
            /\ UNCHANGED <<fs, envTarget, log, loc>>
    /\ UNCHANGED <<world, out, pyenvVersions, args, prev>>
    /\ UNCHANGED call


\* the call of install_python(use_pyenv=True)
ResolveRuntime(p) ==
    /\ pc[p] = "e_resolve"
    /\ pc' = [pc EXCEPT ![p] = "i_installed"]
    /\ log' = Append2(p, <<"resolve">>)
    /\ UNCHANGED <<world, fs, out, pyenvVersions, args, loc, prev, envTarget>>
    /\ UNCHANGED call


\* what create_environment itself did; what its install_python did along
\* the way is summed up in FetchedEvent
EnvEvents ==
    {"env:exists", "env:reused", "env:mismatch", "env:unprobed", "rmtree", "resolve",
     "resolve:unverified", "build", "build:tool", "build:simple",
     "env:verified", "env:warning", "cleanup"}

FetchedEvent(l) ==
    IF \E i \in 1..Len(l) : l[i] \in {"fetch", "fetch:failed"}
    THEN <<"resolve:fetched">> ELSE <<>>

\* install_python is back: its RuntimeError goes on to the caller
Resolved(p) ==
    /\ pc[p] = "i_ret"
    /\ loc[p].caller \in {"env", "jython"}
    /\ log' = [log EXCEPT ![p] =
                 SelectSeq(@, LAMBDA e : e \in EnvEvents) \o FetchedEvent(@)]
    /\ IF loc[p].result # "path"
       THEN EnvReturn(p, "error:install")
       ELSE IF loc[p].caller = "jython"
            THEN EnvReturn(p, "ok")
            ELSE /\ pc' = [pc EXCEPT ![p] = "e_verify"]
                 /\ loc' = [loc EXCEPT ![p].chain = <<>>, ![p].cand = 0]
    /\ UNCHANGED <<world, fs, out, pyenvVersions, args, prev, envTarget>>
    /\ UNCHANGED call


\* the version probe of the resolved runtime: a mismatch raises, a probe that
\* cannot run is only warned about
\* the probe of the resolved runtime with its failure raised to the caller
VerifyResolvedRaises(p) ==
    /\ pc[p] = "e_verify"
    /\ \E ran \in BOOLEAN :
         IF ~ran \/ ~Contains(Strip(out[loc[p].path]), ExpectedVersion(world.version))
         THEN /\ EnvReturn(p, "error:version")
              /\ log' = Append2(p, IF ran THEN <<>> ELSE <<"resolve:unverified">>)
         ELSE /\ pc' = [pc EXCEPT ![p] = "e_build"]
              /\ UNCHANGED <<log, loc>>
    /\ UNCHANGED <<world, fs, out, pyenvVersions, args, prev, envTarget>>
    /\ UNCHANGED call

VerifyResolved(p) ==
    /\ pc[p] = "e_verify"
    /\ \E ran \in BOOLEAN :
         IF ran /\ ~Contains(Strip(out[loc[p].path]), ExpectedVersion(world.version))
         THEN /\ EnvReturn(p, "error:version")
              /\ UNCHANGED log
         ELSE /\ pc' = [pc EXCEPT ![p] = "e_build"]
              /\ log' = Append2(p, IF ran THEN <<>> ELSE <<"resolve:unverified">>)
              /\ UNCHANGED loc
    /\ UNCHANGED <<world, fs, out, pyenvVersions, args, prev, envTarget>>
    /\ UNCHANGED call



is_python2(version) ==
    StartsWith(version, <<"2">>) \/ Contains(Lower(version), PyPyPrefix \o <<"2">>)

ToolOutcomes == {"ok", "nonzero", "oserror"}

\* venv whatever the version
NativeToolVenvOnly(version) == "venv"

\* which of _create_virtualenv_python2 and _create_venv_python3 is called
NativeTool(version) == IF is_python2(version) THEN "virtualenv" ELSE "venv"

\* the module the runtime is started with, and how that ended
ToolEvents(tool, outcome) ==
    <<IF tool = "venv" THEN "try:venv" ELSE "try:virtualenv",
      IF outcome = "ok" THEN "build:tool"
      ELSE IF outcome = "nonzero" THEN "tool:nonzero" ELSE "tool:oserror">>

\* _create_venv_python3 / _create_virtualenv_python2 up to the simple
\* fallback.  The tool ends well, ends with a non-zero status, or cannot be
\* started; run over a directory that already holds a link named python, a
\* POSIX tool may leave that link as it is (kept).
BuildEnvironment(p) ==
    /\ pc[p] = "e_build"
    /\ \E tool \in ToolOutcomes,
          kept \in (IF "envexe" \in fs /\ world.platform # "windows"
                    THEN BOOLEAN ELSE {FALSE}) :
         /\ log' = Append2(p, <<"build">> \o ToolEvents(NativeTool(world.version), tool))
         /\ CASE tool = "ok" ->
                  /\ fs' = fs \cup {"envdir", "envexe"}
                  /\ envTarget' = IF kept THEN envTarget
                                  ELSE [envTarget EXCEPT !["envexe"] = loc[p].path]
                  /\ pc' = [pc EXCEPT ![p] = "e_built"]
              [] tool = "nonzero"
                 \/ (tool = "oserror" /\ NativeTool(world.version) = "virtualenv") ->
                  /\ pc' = [pc EXCEPT ![p] = "e_simple"]
                  /\ UNCHANGED <<fs, envTarget>>
              [] OTHER ->
                  /\ pc' = [pc EXCEPT ![p] = "e_fail"]
                  /\ UNCHANGED <<fs, envTarget>>
    /\ UNCHANGED <<world, out, pyenvVersions, args, loc, prev>>
    /\ UNCHANGED call


\* _create_simple_env: the three mkdir(parents=True, exist_ok=True)
SimpleEnvMkdir(p) ==
    /\ pc[p] = "e_simple"
    /\ fs' = fs \cup {"envdir"}
    /\ pc' = [pc EXCEPT ![p] =
                IF world.platform = "windows" THEN "e_simple_bat" ELSE "e_simple_link"]
    /\ UNCHANGED <<world, out, pyenvVersions, args, loc, log, prev, envTarget>>
    /\ UNCHANGED call


\* writing a file or making a link goes through, or the system refuses it
IOOutcomes == {"ok", "oserror"}

\* _create_simple_env on Windows: python.bat that starts the runtime
SimpleEnvWindows(p) ==
    /\ pc[p] = "e_simple_bat"
    /\ \E io \in IOOutcomes :
         IF "envdir" \in fs /\ io = "ok"
         THEN /\ fs' = fs \cup {"envbat"}
              /\ envTarget' = [envTarget EXCEPT !["envbat"] = loc[p].path]
              /\ log' = Append2(p, <<"build:simple">>)
              /\ pc' = [pc EXCEPT ![p] = "e_built"]
         ELSE /\ pc' = [pc EXCEPT ![p] = "e_fail"]
              /\ log' = Append2(p, <<"simple:failed">>)
              /\ UNCHANGED <<fs, envTarget>>
    /\ UNCHANGED <<world, out, pyenvVersions, args, loc, prev>>
    /\ UNCHANGED call


\* _create_simple_env on POSIX: `if python_link.exists(): python_link.unlink()`
SimpleEnvUnlink(p) ==
    /\ pc[p] = "e_simple_link"
    /\ fs' = fs \ {"envexe"}
    /\ envTarget' = [envTarget EXCEPT !["envexe"] = NoPath]
    /\ pc' = [pc EXCEPT ![p] = "e_simple_symlink"]
    /\ UNCHANGED <<world, out, pyenvVersions, args, loc, log, prev>>
    /\ UNCHANGED call


\* _create_simple_env on POSIX: symlink_to, and shutil.copy2 on OSError.
\* Into a directory that is gone both raise; onto a link that appeared in
\* the meantime symlink_to raises FileExistsError and copy2 either raises
\* SameFileError (the link leads to the same runtime) or writes through the
\* link into the runtime it leads to.
SimpleEnvSymlink(p) ==
    /\ pc[p] = "e_simple_symlink"
    /\ \E io \in IOOutcomes :
         IF "envdir" \notin fs \/ io = "oserror"
         THEN /\ pc' = [pc EXCEPT ![p] = "e_fail"]
              /\ log' = Append2(p, <<"simple:failed">>)
              /\ UNCHANGED <<fs, out, envTarget>>
         ELSE IF "envexe" \notin fs
         THEN /\ fs' = fs \cup {"envexe"}
              /\ envTarget' = [envTarget EXCEPT !["envexe"] = loc[p].path]
              /\ log' = Append2(p, <<"build:simple">>)
              /\ pc' = [pc EXCEPT ![p] = "e_built"]
              /\ UNCHANGED out
         ELSE IF envTarget["envexe"] = loc[p].path
         THEN /\ pc' = [pc EXCEPT ![p] = "e_fail"]
              /\ log' = Append2(p, <<"simple:failed">>)
              /\ UNCHANGED <<fs, out, envTarget>>
         ELSE /\ out' = [out EXCEPT ![envTarget["envexe"]] = out[loc[p].path]]
              /\ log' = Append2(p, <<"build:simple">>)
              /\ pc' = [pc EXCEPT ![p] = "e_built"]
              /\ UNCHANGED <<fs, envTarget>>
    /\ UNCHANGED <<world, pyenvVersions, args, loc, prev>>
    /\ UNCHANGED call


\* the probe of the environment just built: whatever it says, the outcome is
\* a message at most, and `return env_dir`
VerifyBuilt(p) ==
    /\ pc[p] = "e_built"
    /\ \E ran \in BOOLEAN :
         LET exe == GetPythonExecutable(fs, world.platform)
             output == IF ran /\ exe \in fs THEN Strip(LauncherOutput(exe)) ELSE OEmpty
         IN  /\ log' = Append2(p,
                    IF exe \notin fs THEN <<>>
                    ELSE IF output # OEmpty /\ Contains(output, ExpectedVersion(world.version))
                    THEN <<"env:verified">> ELSE <<"env:warning">>)
             /\ EnvReturn(p, "ok")
    /\ UNCHANGED <<world, fs, out, pyenvVersions, args, prev, envTarget>>
    /\ UNCHANGED call


\* the handler without its rmtree
BuildFailedKeepsDirectory(p) ==
    /\ pc[p] = "e_fail"
    /\ EnvReturn(p, "error:build")
    /\ UNCHANGED <<world, fs, out, pyenvVersions, args, log, prev, envTarget>>
    /\ UNCHANGED call

\* `except Exception`: remove what is there of the environment, and raise
BuildFailed(p) ==
    /\ pc[p] = "e_fail"
    /\ IF "envdir" \in fs
       THEN /\ fs' = RemoveTree(fs)
            /\ envTarget' = NoTarget
            /\ log' = Append2(p, <<"cleanup">>)
       ELSE UNCHANGED <<fs, envTarget, log>>
    /\ EnvReturn(p, "error:build")
    /\ UNCHANGED <<world, out, pyenvVersions, args, prev>>
    /\ UNCHANGED call


\* what is kept of a finished call: of one that returned, its arguments
Summary(p) ==
    IF loc[p].env = "ok" THEN [op |-> "env", args |-> args[p]]
    ELSE [op |-> "failed"]

\* create_environment is over, the caller has its result
EnvDone(p) ==
    /\ pc[p] = "e_ret"
    /\ prev' = [prev EXCEPT ![p] = Summary(p)]
    /\ pc' = [pc EXCEPT ![p] = "idle"]
    /\ args' = [args EXCEPT ![p] = InitArgs]
    /\ loc' = [loc EXCEPT ![p] = InitLoc]
    /\ log' = [log EXCEPT ![p] = <<>>]
    /\ UNCHANGED <<world, fs, out, pyenvVersions, envTarget>>
    /\ UNCHANGED call


\* run_script after its create_environment: the launcher must exist
UseEnvironment(p) ==
    /\ pc[p] = "e_ret"
    /\ LET exe == GetPythonExecutable(fs, world.platform)
       IN  loc' = [loc EXCEPT ![p].env =
                     IF loc[p].env # "ok" THEN loc[p].env
                     ELSE IF exe \in fs THEN "ok" ELSE "error:nopython"]
    /\ pc' = [pc EXCEPT ![p] = "done"]
    /\ UNCHANGED <<world, fs, out, pyenvVersions, args, log, prev, envTarget>>
    /\ UNCHANGED call



----------------------------------------------------------------------------
(* The environment builder: machines and specifications *)

\* what is at the place of the environment when the tool starts: nothing, a
\* directory without a launcher, an environment of the version asked for, an
\* environment of another version
EnvStates == {"absent", "empty", "right", "wrong"}

LaunchersOf(platform) == IF platform = "windows" THEN Launchers ELSE {"envexe"}

\* the machines the builder is followed on: 3.11 on Linux with or without a
\* python3.11 on PATH and a pyenv copy, 2.7 on a bare Windows (the MSI
\* route), Jython with java; nothing installed by the tool yet
EnvWorlds ==
    {w \in Worlds :
        /\ w.fs \cap {"instexe", "pyexe", "cachejar", "pypyexe"} = {}
        /\ w.world.selfver # w.world.version
        /\ "sysexe" \in w.fs => Contains(w.out["sysexe"], ExpectedVersion(w.world.version))
        /\ \/ /\ w.world.version = V311
              /\ w.world.platform = "linux"
              /\ w.world.selfver = V312
              /\ w.world.pyenv => w.pyenvVersions # {}
           \/ /\ w.world.version = V27
              /\ w.world.platform = "windows"
              /\ "sysexe" \notin w.fs
              /\ ~w.world.pyenv
           \/ /\ w.world.version = VJython
              /\ w.world.java}

InitMachine(w, e, l) ==
    /\ world = w.world
    /\ pyenvVersions = w.pyenvVersions
    /\ fs = w.fs \cup (IF e = "absent" THEN {} ELSE {"envdir"})
                 \cup (IF e \in {"right", "wrong"} THEN {l} ELSE {})
    /\ out = [w.out EXCEPT !["stale"] = Reports(e, w.world.version)]
    /\ envTarget = IF e \in {"right", "wrong"}
                   THEN [NoTarget EXCEPT ![l] = "stale"] ELSE NoTarget

InitEnv ==
    /\ \E w \in EnvWorlds, e \in EnvStates :
         /\ w.world.version = VJython => e = "absent"
         /\ \E l \in LaunchersOf(w.world.platform) : InitMachine(w, e, l)
    /\ InitProcs
    /\ call = NotCalled

\* install_python as create_environment runs it
ResolveStep(p) ==
    \/ CheckInstalled(p)
    \/ AlternativeInterpreter(p)
    \/ SystemDiscovery(p)
    \/ PyenvStep(p)
    \/ DownloadAndInstallPython(p)
    \/ TryAlternativeDownloads(p)
    \/ RaiseUnavailable(p)

BuildStep(p) ==
    \/ CheckExisting(p)
    \/ ProbeExisting(p)
    \/ RemoveStale(p)
    \/ ResolveRuntime(p)
    \/ Resolved(p)
    \/ VerifyResolved(p)
    \/ BuildEnvironment(p)
    \/ SimpleEnvMkdir(p)
    \/ SimpleEnvWindows(p)
    \/ SimpleEnvUnlink(p)
    \/ SimpleEnvSymlink(p)
    \/ VerifyBuilt(p)
    \/ BuildFailed(p)

NextEnv ==
    \/ CreateEnvironment(1)
    \/ ResolveStep(1)
    \/ BuildStep(1)
    \/ EnvDone(1)

\* one invocation calling create_environment again and again
SpecEnv == InitEnv /\ [][NextEnv]_vars


\* the machine two invocations race on: Linux, 3.11 asked for, a python3.11
\* on PATH, no pyenv
RaceWorlds ==
    {w \in EnvWorlds :
        /\ w.world.version = V311
        /\ "sysexe" \in w.fs
        /\ ~w.world.pyenv}

InitRace ==
    /\ \E w \in RaceWorlds, e \in EnvStates : InitMachine(w, e, "envexe")
    /\ InitProcs
    /\ call = NotCalled

\* on such a machine install_python never comes to the alternative
\* interpreters or to a second download candidate, and the builder never to
\* its Windows branch
RaceStep(p) ==
    \/ RunScript(p)
    \/ CheckExisting(p)
    \/ ProbeExisting(p)
    \/ RemoveStale(p)
    \/ ResolveRuntime(p)
    \/ CheckInstalled(p)
    \/ SystemDiscovery(p)
    \/ PyenvStep(p)
    \/ DownloadAndInstallPython(p)
    \/ RaiseUnavailable(p)
    \/ Resolved(p)
    \/ VerifyResolved(p)
    \/ BuildEnvironment(p)
    \/ SimpleEnvMkdir(p)
    \/ SimpleEnvUnlink(p)
    \/ SimpleEnvSymlink(p)
    \/ VerifyBuilt(p)
    \/ BuildFailed(p)
    \/ UseEnvironment(p)

NextRace == \E p \in Procs : RaceStep(p)

\* two invocations of the tool, one run_script each, any interleaving
SpecRace == InitRace /\ [][NextRace]_vars

\* the steps left out of RaceStep are never reached
RaceStepsComplete ==
    \A p \in Procs : pc[p] \notin {"i_alt", "i_try_alt", "e_simple_bat"}


----------------------------------------------------------------------------
(* The environment builder: properties *)

\* the call in progress found that the existing environment did not pass
FoundStale(p) == HasEvent(p, "env:mismatch") \/ HasEvent(p, "env:unprobed")

\* the call in progress resolved a runtime, built, or removed something
DidWork(p) ==
    \E e \in {"resolve", "build", "rmtree", "cleanup"} : HasEvent(p, e)

\* the call that is returning follows a call that returned, with the same
\* arguments, force_recreate=False, and saw no mismatch itself
SecondOfTwo(p) ==
    /\ pc[p] = "e_ret"
    /\ prev[p].op = "env"
    /\ prev[p].args = args[p]
    /\ ~args[p].force
    /\ ~FoundStale(p)

\* C4: when the interpreter of an existing environment reports another
\* version, or cannot be probed, create_environment has removed the
\* environment directory by the time it goes on to resolve and build,
\* whatever quiet is.
C4_StaleEnvironmentRemoved ==
    \A p \in Procs :
        (pc[p] = "e_resolve" /\ FoundStale(p))
            => (HasEvent(p, "rmtree") /\ "envdir" \notin fs)

\* C5: with force_recreate=True and the environment directory there at the
\* start of the call, the directory is gone by the time create_environment
\* goes on to resolve and build.
C5_ForceRecreateDestroys ==
    \A p \in Procs :
        (pc[p] = "e_resolve" /\ args[p].force /\ HasEvent(p, "env:exists"))
            => "envdir" \notin fs

\* C6, as stated: for every identifier, the second of two successive calls
\* with the same arguments resolves no runtime, builds nothing, deletes
\* nothing, and returns the directory.
C6_SecondCallIsReuse ==
    \A p \in Procs :
        SecondOfTwo(p) => (loc[p].env = "ok" /\ ~DidWork(p))

\* C6, amended: the same for every identifier that has an environment, that
\* is every identifier but Jython, for which each call runs install_python
\* anew and nothing is ever built.
C6_SecondCallIsReuseUnlessJython ==
    \A p \in Procs :
        (SecondOfTwo(p) /\ IsAlternativeInterpreter(world.version) # "jython")
            => (loc[p].env = "ok" /\ ~DidWork(p) /\ HasEvent(p, "env:reused"))

C6_Witness ==
    /\ SecondOfTwo(1)
    /\ IsAlternativeInterpreter(world.version) # "jython"
    /\ HasEvent(1, "env:reused")
    /\ loc[1].env = "ok"

\* C7: when create_environment returns an environment directory, the
\* launcher in it exists and reports the version asked for.
C7_NeverReturnsWrongVersion ==
    \A p \in Procs :
        (pc[p] = "e_ret" /\ loc[p].env = "ok" /\ loc[p].caller = "env")
            => LET exe == GetPythonExecutable(fs, world.platform)
               IN  /\ exe \in fs
                   /\ Contains(LauncherOutput(exe), ExpectedVersion(world.version))

\* C8: with two invocations running concurrently, an invocation whose
\* create_environment returned the environment directory finds the
\* directory and the launcher in it when it goes on to use them.
C8_RaceLeavesEnvironment ==
    \A p \in Procs :
        /\ (pc[p] = "e_ret" /\ loc[p].env = "ok")
              => /\ "envdir" \in fs
                 /\ GetPythonExecutable(fs, world.platform) \in fs
        /\ pc[p] = "done" => loc[p].env # "error:nopython"


----------------------------------------------------------------------------
(* python_installed on its own *)

\* a 3.12 runtime whose patch number makes its output read "...2.7"
O3127 == PythonSpace \o <<"3", ".", "1", "2", ".", "7">>

\* machines python_installed is asked about: a CPython version with nothing
\* under its directory or an executable printing some output, Jython and PyPy
\* as in Worlds
InstalledWorlds ==
    { [world |-> [version |-> v, platform |-> pl, java |-> FALSE,
                  pyenv |-> FALSE, selfver |-> V312],
       fs |-> {"selfexe"} \cup (IF inst THEN {"instdir", "instexe"} ELSE {}),
       out |-> [BlankOut EXCEPT !["selfexe"] = O312,
                                !["instexe"] = IF inst THEN o ELSE OEmpty],
       pyenvVersions |-> {}] :
      v \in CPythonVersions \cup {V312},
      pl \in {"linux", "windows"},
      inst \in BOOLEAN,
      o \in {OEmpty, O27, O311, O312, O3127} }
        \cup JythonWorlds \cup PyPyWorlds

InitInstalled ==
    /\ \E w \in InstalledWorlds :
         /\ world = w.world
         /\ fs = w.fs
         /\ out = w.out
         /\ pyenvVersions = w.pyenvVersions
    /\ envTarget = NoTarget
    /\ InitProcs
    /\ call = NotCalled

\* installer.python_installed(version)
PythonInstalledCall ==
    /\ call = NotCalled
    /\ \E net \in {"ok", "urlerr"}, probed \in BOOLEAN :
         LET r == PythonInstalled(world.version, fs, out, world.java, net, probed)
         IN  /\ fs' = r.fs
             /\ call' = [fn |-> "python_installed", before |-> fs,
                         ev |-> r.ev, ret |-> r.ret]
    /\ UNCHANGED <<world, out, pyenvVersions, pc, args, loc, log, prev, envTarget>>

NextInstalled == PythonInstalledCall

SpecInstalled == InitInstalled /\ [][NextInstalled]_vars

\* the major.minor token of the version a --version output reports
\* ("Python X.Y.Z ..."), <<>> when it reports none
ReportedMajorMinor(pr) ==
    LET words == Split(pr, " ")
    IN  IF pr = ProbeFailed \/ Len(words) < 2 THEN <<>>
        ELSE ExpectedVersion(words[2])

\* the major.minor token of the version asked for
RequestedMajorMinor(version) ==
    IF IsAlternativeInterpreter(version) = "pypy"
    THEN ExpectedVersion(Replace(Lower(version), PyPyPrefix, <<>>))
    ELSE ExpectedVersion(version)

\* where the executable of the version asked for is expected
ExpectedExecutable(version) ==
    IF IsAlternativeInterpreter(version) = "pypy" THEN "pypyexe" ELSE "instexe"

\* C11: python_installed(v) is true only if the expected executable exists,
\* its --version probe ran and the version it reports has v's major.minor
\* token (an output that merely contains the expected string is not enough);
\* for the Jython JAR it is true exactly when the JAR file exists
C11_InstalledMeansVersionReported ==
    call.fn = "python_installed" =>
        IF IsAlternativeInterpreter(world.version) = "jython"
        THEN call.ret <=> "jar" \in fs
        ELSE call.ret =>
                /\ ExpectedExecutable(world.version) \in call.before
                /\ call.ev = <<"probe">>
                /\ ReportedMajorMinor(out[ExpectedExecutable(world.version)])
                     = RequestedMajorMinor(world.version)

----------------------------------------------------------------------------
(* install_python: further properties *)

\* the call has returned the path of a runtime found on the system
ReturnedSystemPath(p) ==
    /\ pc[p] = "i_ret"
    /\ loc[p].result = "path"
    /\ loc[p].path \in SystemCandidates

\* C12: a system-discovered executable (the current interpreter, one on PATH,
\* one named by the py launcher) is returned only after a version probe of
\* that very path ran and printed the expected major.minor
C12_SystemPathWasProbed ==
    \A p \in Procs :
        ReturnedSystemPath(p) =>
            /\ loc[p].path \in fs
            /\ log[p][Len(log[p])] = "probe"
            /\ Contains(out[loc[p].path], ExpectedVersion(world.version))

C12_Witness ==
    /\ ReturnedSystemPath(1)
    /\ loc[1].path = "sysexe"
    /\ LastStep(1) = "step:system"

\* the events the step being taken adds to the log of invocation p
NewEvents(p) ==
    IF Len(log'[p]) > Len(log[p]) /\ SubSeq(log'[p], 1, Len(log[p])) = log[p]
    THEN SubSeq(log'[p], Len(log[p]) + 1, Len(log'[p]))
    ELSE <<>>

Adds(p, e) == \E i \in 1..Len(NewEvents(p)) : NewEvents(p)[i] = e

\* no discovery probe ran to its end
NoneRan == [c \in SystemCandidates |-> FALSE]

C14_ErrorListsAttemptedMethods ==
    \A p \in Procs :
        pc[p] = "i_ret" =>
            /\ loc[p].result # "none"
            /\ loc[p].result = "path" => loc[p].path # NoPath
            /\ loc[p].result = "unavailable" =>
                 UnavailableMessage(world.version, args[p].offline).methods = Steps(p)

----------------------------------------------------------------------------
(* The environment builder: further properties *)

\* C15: when building the environment fails (the native tool and the
\* hand-built fallback both fail), create_environment raises and the
\* environment directory does not exist afterwards
C15_FailedBuildLeavesNothing ==
    \A p \in Procs :
        pc[p] = "e_ret" =>
            /\ HasEvent(p, "simple:failed") => loc[p].env = "error:build"
            /\ loc[p].env = "error:build" => fs \cap EnvFiles = {}

C15_Witness ==
    /\ pc[1] = "e_ret"
    /\ loc[1].env = "error:build"
    /\ HasEvent(1, "simple:failed")
    /\ HasEvent(1, "cleanup")

\* a legacy version: CPython 2.x or PyPy 2.x
Legacy(version) ==
    StartsWith(version, <<"2">>) \/ StartsWith(Lower(version), PyPyPrefix \o <<"2">>)

VPyPy27 == PyPyPrefix \o V27

\* the tool of the other family than the version's
OtherTool(version) == IF Legacy(version) THEN "try:venv" ELSE "try:virtualenv"

OwnTool(version) == IF Legacy(version) THEN "try:virtualenv" ELSE "try:venv"

\* C16: a legacy version (2.x, PyPy 2.x) is built with virtualenv first, any
\* other with venv first; a native tool that ends with a non-zero status
\* always leads to the hand-built fallback and is not propagated; the fallback
\* is entered only after the native tool failed; the tool of the other family
\* is never tried
C16_BuildStrategy ==
    [][/\ \A v \in {V27, V311, V312, VPyPy311, VPyPy27} :
            NativeTool(v) = IF Legacy(v) THEN "virtualenv" ELSE "venv"
       /\ \A p \in Procs :
            /\ pc[p] = "e_build" /\ pc'[p] # "e_build" =>
                 /\ Adds(p, OwnTool(world.version))
                 /\ ~Adds(p, OtherTool(world.version))
                 /\ Adds(p, "tool:nonzero") =>
                      /\ pc'[p] = "e_simple"
                      /\ fs' = fs
                 /\ Adds(p, "build:tool") => pc'[p] = "e_built"
            /\ pc'[p] = "e_simple" => pc[p] = "e_build" /\ ~Adds(p, "build:tool")
            /\ ~HasEvent(p, OtherTool(world.version))
            /\ Adds(p, "build:simple") => ~HasEvent(p, "build:tool")]_vars

C16_Witness ==
    /\ world.version = V27
    /\ pc[1] = "e_built"
    /\ HasEvent(1, "try:virtualenv")
    /\ HasEvent(1, "tool:nonzero")
    /\ HasEvent(1, "build:simple")

\* C17: whatever was there before (nothing, a verified environment, a stale
\* one), after create_environment has returned the directory,
\* get_python_executable names a file that exists and that starts the
\* runtime this call resolved, not a launcher left over from before
C17_LauncherStartsResolvedRuntime ==
    \A p \in Procs :
        (pc[p] = "e_ret" /\ loc[p].env = "ok" /\ loc[p].caller = "env")
            => LET exe == GetPythonExecutable(fs, world.platform)
               IN  /\ exe \in fs
                   /\ HasEvent(p, "resolve") => envTarget[exe] = loc[p].path

----------------------------------------------------------------------------
(* version_detector.py: the regular expressions *)

\* what \s matches
Whitespace == {" ", "\t", "\n"}

Digits == {DigitChars[i] : i \in 1..Len(DigitChars)}

\* the literal lit stands in s at index i
At(s, i, lit) ==
    i >= 1 /\ i + Len(lit) - 1 <= Len(s) /\ SubSeq(s, i, i + Len(lit) - 1) = lit

\* where a greedy \s* begun at index i ends: the first index from i on that
\* holds no whitespace
RECURSIVE SkipWhitespace(_, _)
SkipWhitespace(s, i) ==
    IF i <= Len(s) /\ s[i] \in Whitespace THEN SkipWhitespace(s, i + 1) ELSE i

\* where a greedy \d* begun at index i ends
RECURSIVE SkipDigits(_, _)
SkipDigits(s, i) ==
    IF i <= Len(s) /\ s[i] \in Digits THEN SkipDigits(s, i + 1) ELSE i

\* the group (\d+(?:\.\d+)?) matched at index i, <<>> when none is
VersionGroup(s, i) ==
    LET e1 == SkipDigits(s, i)
        e2 == SkipDigits(s, e1 + 1)
    IN  IF e1 = i THEN <<>>
        ELSE IF e1 <= Len(s) /\ s[e1] = "." /\ e2 > e1 + 1
        THEN SubSeq(s, i, e2 - 1)
        ELSE SubSeq(s, i, e1 - 1)

HashBang ==
    <<"#", "!">>
UsrBinEnv ==
    <<"/", "u", "s", "r", "/", "b", "i", "n", "/", "e", "n", "v">>
UsrBinPython ==
    <<"/", "u", "s", "r", "/", "b", "i", "n", "/", "p", "y", "t", "h", "o",
      "n">>
PythonWord ==
    <<"p", "y", "t", "h", "o", "n">>

\* SHEBANG_PATTERN.match(line): whether it matches, and its group 1
ShebangPattern(line) ==
    LET j == SkipWhitespace(line, Len(HashBang) + 1)
        k == j + Len(UsrBinEnv)
        n == SkipWhitespace(line, k)
    IN  IF /\ At(line, 1, HashBang)
           /\ At(line, j, UsrBinEnv)
           /\ n > k
           /\ At(line, n, PythonWord)
        THEN [matched |-> TRUE, group |-> VersionGroup(line, n + Len(PythonWord))]
        ELSE [matched |-> FALSE, group |-> <<>>]

\* SHEBANG_PATTERN_ALT.match(line)
ShebangPatternAlt(line) ==
    LET j == SkipWhitespace(line, Len(HashBang) + 1)
    IN  IF At(line, 1, HashBang) /\ At(line, j, UsrBinPython)
        THEN [matched |-> TRUE, group |-> VersionGroup(line, j + Len(UsrBinPython))]
        ELSE [matched |-> FALSE, group |-> <<>>]

\* VERSION_COMMENT_PATTERN.search(line), case ignored: after the first "#"
\* the greedy .* leaves the last "python" that digits follow
VersionCommentPattern(line) ==
    LET low == Lower(line)
        hashes == {i \in 1..Len(low) : low[i] = "#"}
        first == CHOOSE i \in hashes : \A h \in hashes : i <= h
        digitsAt(j) == SkipWhitespace(low, j + Len(PythonWord))
        found == IF hashes = {} THEN {}
                 ELSE {j \in (first + 1)..Len(low) :
                         /\ At(low, j, PythonWord)
                         /\ digitsAt(j) <= Len(low)
                         /\ low[digitsAt(j)] \in Digits}
        last == CHOOSE j \in found : \A o \in found : o <= j
    IN  IF found = {} THEN [matched |-> FALSE, group |-> <<>>]
        ELSE [matched |-> TRUE, group |-> VersionGroup(low, digitsAt(last))]

\* a word, \s*, an opening bracket: xrange\s*\( and the like
CallOf(content, word) ==
    \E i \in 1..Len(content) :
        LET e == SkipWhitespace(content, i + Len(word))
        IN  At(content, i, word) /\ e <= Len(content) /\ content[e] = "("

PrintWord ==
    <<"p", "r", "i", "n", "t">>

\* print\s+[^(] : after the whitespace a character that is no bracket, or two
\* whitespace characters, the second of them taken for [^(]
PrintStatement(content) ==
    \E i \in 1..Len(content) :
        LET b == i + Len(PrintWord)
            e == SkipWhitespace(content, b)
        IN  /\ At(content, i, PrintWord)
            /\ e > b
            /\ \/ e > b + 1
               \/ e <= Len(content) /\ content[e] # "("

IterItems ==
    <<".", "i", "t", "e", "r", "i", "t", "e", "m", "s", "(", ")">>
IterKeys ==
    <<".", "i", "t", "e", "r", "k", "e", "y", "s", "(", ")">>
IterValues ==
    <<".", "i", "t", "e", "r", "v", "a", "l", "u", "e", "s", "(", ")">>
XRange ==
    <<"x", "r", "a", "n", "g", "e">>
Unicode ==
    <<"u", "n", "i", "c", "o", "d", "e">>
BaseString ==
    <<"b", "a", "s", "e", "s", "t", "r", "i", "n", "g">>
HasKey ==
    <<".", "h", "a", "s", "_", "k", "e", "y">>
RawInput ==
    <<"r", "a", "w", "_", "i", "n", "p", "u", "t">>

\* PYTHON2_SYNTAX, in its order: pattern k is found in content
PYTHON2_SYNTAX == 1..9

PatternSearch(k, content) ==
    CASE k = 1 -> PrintStatement(content)
      [] k = 2 -> Contains(content, IterItems)
      [] k = 3 -> Contains(content, IterKeys)
      [] k = 4 -> Contains(content, IterValues)
      [] k = 5 -> CallOf(content, XRange)
      [] k = 6 -> CallOf(content, Unicode)
      [] k = 7 -> Contains(content, BaseString)
      [] k = 8 -> CallOf(content, HasKey)
      [] k = 9 -> CallOf(content, RawInput)

----------------------------------------------------------------------------
(* VersionDetector.detect_version *)

\* None
None == <<>>

\* the shebang's own version, whatever it is
CheckShebangVerbatim(first_line) ==
    LET env == ShebangPattern(first_line)
        match == IF env.matched THEN env ELSE ShebangPatternAlt(first_line)
    IN  IF match.matched THEN (IF match.group # None THEN match.group ELSE V311)
        ELSE None

\* _check_shebang
CheckShebang(first_line) ==
    LET env == ShebangPattern(first_line)
        match == IF env.matched THEN env ELSE ShebangPatternAlt(first_line)
        version == match.group
    IN  IF match.matched
        THEN IF version # None
             THEN IF StartsWith(version, <<"2">>) THEN V27
                  ELSE IF StartsWith(version, <<"3">>)
                  THEN (IF Tail(version) = <<>> THEN V311 ELSE version)
                  ELSE None
             ELSE V311
        ELSE None

\* _check_version_comment
CheckVersionComment(line) ==
    LET match == VersionCommentPattern(line)
        version == match.group
    IN  IF match.matched
        THEN IF StartsWith(version, <<"2">>) THEN V27
             ELSE IF StartsWith(version, <<"3">>)
             THEN (IF Len(version) = 1 THEN V311 ELSE version)
             ELSE None
        ELSE None

\* ''.join(lines)
RECURSIVE Join(_)
Join(lines) == IF lines = <<>> THEN <<>> ELSE Head(lines) \o Join(Tail(lines))

\* the matches counted line by line: a pattern counts once for each line it
\* is found in
Python2Occurrences(content) ==
    LET lines == Split(content, "\n")
    IN  Cardinality({<<k, i>> \in PYTHON2_SYNTAX \X (1..Len(lines)) :
                        PatternSearch(k, lines[i])})

\* sum(1 for pattern in self.python2_patterns if pattern.search(content))
Python2Matches(content) ==
    Cardinality({k \in PYTHON2_SYNTAX : PatternSearch(k, content)})

\* `if python2_matches >= 2`
SyntaxThreshold == 2

\* _check_syntax
CheckSyntax(content) ==
    IF Python2Matches(content) >= SyntaxThreshold THEN V27 ELSE None

\* `lines[:20]`
CommentScanLines == 20

\* every line of the script
WholeScript(lines) == lines

\* the lines searched for a version comment
ScannedLines(lines) == Take(lines, CommentScanLines)

\* detect_version on the lines read from the script: (version, method)
DetectVersion(lines) ==
    LET shebang == IF lines # <<>> THEN CheckShebang(lines[1]) ELSE None
        scanned == ScannedLines(lines)
        hits == {i \in 1..Len(scanned) : CheckVersionComment(scanned[i]) # None}
        syntax == CheckSyntax(Join(lines))
    IN  IF shebang # None THEN <<shebang, "shebang">>
        ELSE IF hits # {}
        THEN <<CheckVersionComment(scanned[CHOOSE i \in hits : \A h \in hits : i <= h]),
               "comment">>
        ELSE IF syntax # None THEN <<syntax, "syntax">>
        ELSE <<V311, "default">>

----------------------------------------------------------------------------
(* detect_version on its own: the scripts *)

NewLine == <<"\n">>

EnvPython ==
    <<"#", "!", "/", "u", "s", "r", "/", "b", "i", "n", "/", "e", "n", "v",
      " ", "p", "y", "t", "h", "o", "n">>

DirectPython38 ==
    <<"#", "!", "/", "u", "s", "r", "/", "b", "i", "n", "/", "p", "y", "t",
      "h", "o", "n", "3", ".", "8", "\n">>

ShellLine ==
    <<"#", "!", "/", "b", "i", "n", "/", "s", "h", "\n">>

ImportLine ==
    <<"i", "m", "p", "o", "r", "t", " ", "o", "s", "\n">>

CommentFirst ==
    <<"#", " ", "P", "y", "t", "h", "o", "n", " ", "3", ".", "8", " ", "s",
      "c", "r", "i", "p", "t", "\n">>

\* `#!/usr/bin/env pythonNN.MM`
EnvShebang(major, minor) == EnvPython \o Dotted(Dec(major), Dec(minor)) \o NewLine

ShebangMajors == 1..4

ShebangMinors == {0, 6, 7, 9, 11}

\* first lines: an env shebang with major.minor, with a major only, with no
\* version; a direct-path shebang; another interpreter's; no shebang at all
FirstLines ==
    {EnvShebang(major, minor) : major \in ShebangMajors, minor \in ShebangMinors}
        \cup {EnvPython \o Dec(major) \o NewLine : major \in ShebangMajors}
        \cup {EnvPython \o NewLine, DirectPython38, ShellLine, ImportLine, CommentFirst}

Comment38 ==
    <<"#", " ", "p", "y", "t", "h", "o", "n", " ", "3", ".", "8", "\n">>

Comment2 ==
    <<"#", " ", "R", "e", "q", "u", "i", "r", "e", "s", " ", "P", "y", "t",
      "h", "o", "n", " ", "2", "\n">>

Comment4 ==
    <<"#", " ", "f", "o", "r", " ", "p", "y", "t", "h", "o", "n", " ", "4",
      "\n">>

CommentLines == {Comment38, Comment2, Comment4}

\* the line a version comment stands on: early, the last line searched, the
\* first line not searched
CommentPlaces == {2, CommentScanLines, CommentScanLines + 1}

PrintX ==
    <<"p", "r", "i", "n", "t", " ", "x", "\n">>

PrintCall ==
    <<"p", "r", "i", "n", "t", "(", "x", ")", "\n">>

XRangeLoop ==
    <<"f", "o", "r", " ", "i", " ", "i", "n", " ", "x", "r", "a", "n", "g",
      "e", "(", "3", ")", ":", "\n">>

Assignment ==
    <<"x", " ", "=", " ", "1", "\n">>

BodyLines == {PrintX, PrintCall, XRangeLoop, Assignment}

Bodies == {<<>>} \cup {<<a>> : a \in BodyLines} \cup {<<a, b>> : a, b \in BodyLines}

\* n empty lines
RECURSIVE BlankLines(_)
BlankLines(n) == IF n <= 0 THEN <<>> ELSE <<NewLine>> \o BlankLines(n - 1)

\* the scripts of the model, as readlines() gives them; <<>> is the empty file
Scripts ==
    {<<>>}
        \cup {<<first>> \o body : first \in FirstLines, body \in Bodies}
        \cup {<<first>> \o BlankLines(place - 2) \o <<comment>> \o body :
                first \in FirstLines, place \in CommentPlaces,
                comment \in CommentLines, body \in Bodies}

\* the machine detect_version runs on plays no part in it
AnyMachine == CHOOSE w \in JythonWorlds : ~w.world.java /\ w.fs = {"selfexe"}

InitDetect ==
    /\ world = AnyMachine.world
    /\ fs = AnyMachine.fs
    /\ out = AnyMachine.out
    /\ pyenvVersions = AnyMachine.pyenvVersions
    /\ envTarget = NoTarget
    /\ InitProcs
    /\ \E script \in Scripts, exists \in BOOLEAN :
         call = [fn |-> "none", exists |-> exists, script |-> script]

\* detector.detect_version(script_path)
DetectVersionCall ==
    /\ call.fn = "none"
    /\ call' = [call EXCEPT !.fn = "detect_version"] @@
               [ret |-> IF call.exists THEN DetectVersion(call.script)
                        ELSE <<None, "FileNotFoundError">>]
    /\ UNCHANGED <<world, fs, out, pyenvVersions, pc, args, loc, log, prev, envTarget>>

NextDetect == DetectVersionCall

SpecDetect == InitDetect /\ [][NextDetect]_vars

----------------------------------------------------------------------------
(* detect_version: properties *)

\* detect_version has been applied to a script that exists
Detected == call.fn = "detect_version" /\ call.exists

\* the first line gives a version as a shebang
ShebangYields(lines) == lines # <<>> /\ CheckShebang(lines[1]) # None

\* the lines among the first 20 whose comment gives a version
CommentsWithin20(lines) ==
    {i \in 1..Len(lines) : i <= 20 /\ CheckVersionComment(lines[i]) # None}

\* C18: the heuristics are tried in the order shebang (first line), version
\* comment (first 20 lines only), syntax markers (whole source), default
\* ('3.11', 'default'); the method returned is the first that yields a
\* version, and a version comment on line 21 or later is never used
C18_DetectionPriority ==
    Detected =>
        LET lines == call.script
            comments == CommentsWithin20(lines)
            first == CHOOSE i \in comments : \A c \in comments : i <= c
        IN  call.ret =
              IF ShebangYields(lines) THEN <<CheckShebang(lines[1]), "shebang">>
              ELSE IF comments # {}
              THEN <<CheckVersionComment(lines[first]), "comment">>
              ELSE IF CheckSyntax(Join(lines)) # None
              THEN <<CheckSyntax(Join(lines)), "syntax">>
              ELSE <<V311, "default">>

C18_Witness ==
    /\ Detected
    /\ Len(call.script) >= 21
    /\ CheckVersionComment(call.script[21]) # None
    /\ call.ret[2] = "syntax"

\* the first line of the script is `#!/usr/bin/env python<suffix>`
FirstLineIs(suffix) ==
    call.script # <<>> /\ call.script[1] = EnvPython \o suffix \o NewLine

MarkersFound(lines) == {k \in 1..9 : PatternSearch(k, Join(lines))}

\* C20: with no version from the shebang or a comment, the result is
\* ('2.7', 'syntax') exactly when at least 2 distinct legacy markers occur;
\* with none or one, however often it occurs, the default is returned
C20_TwoDistinctMarkers ==
    (Detected /\ ~ShebangYields(call.script) /\ CommentsWithin20(call.script) = {}) =>
        /\ call.ret = <<V27, "syntax">> <=> Cardinality(MarkersFound(call.script)) >= 2
        /\ Cardinality(MarkersFound(call.script)) < 2 => call.ret = <<V311, "default">>

C20_Witness ==
    /\ Detected
    /\ call.script = <<ImportLine, PrintX, PrintX>>
    /\ call.ret = <<V311, "default">>

----------------------------------------------------------------------------
(* PythonVersionDetector.normalize_version *)

\* s.strip(): whitespace taken off both ends
RECURSIVE StripWhitespace(_)
StripWhitespace(s) ==
    IF s # <<>> /\ s[1] \in Whitespace THEN StripWhitespace(Tail(s))
    ELSE IF s # <<>> /\ s[Len(s)] \in Whitespace
    THEN StripWhitespace(SubSeq(s, 1, Len(s) - 1))
    ELSE s

V310 == <<"3", ".", "1", "0">>
V39 == <<"3", ".", "9">>

\* ('pypy3.11', 'pypy3.10', 'pypy3.9', 'pypy2.7')
NormalizeKeys ==
    <<PyPyPrefix \o V311, PyPyPrefix \o V310, PyPyPrefix \o V39, PyPyPrefix \o V27>>

\* normalize_version with the first two parts taken one place too far
NormalizeVersionShifted(version) ==
    LET v == StripWhitespace(Lower(version))
        parts == Split(version, ".")
    IN  IF StartsWith(v, PyPyPrefix) THEN PyPyPrefix \o V311
        ELSE IF StartsWith(v, JythonPrefix) THEN VJython
        ELSE IF StartsWith(v, <<"2">>) THEN V27
        ELSE IF StartsWith(v, <<"3">>) /\ Len(parts) >= 3
        THEN Dotted(parts[2], parts[3])
        ELSE V311

\* normalize_version without its branch for PyPy
NormalizeVersionNoPyPy(version) ==
    LET v == StripWhitespace(Lower(version))
        parts == Split(version, ".")
    IN  IF StartsWith(v, JythonPrefix) THEN VJython
        ELSE IF StartsWith(v, <<"2">>) THEN V27
        ELSE IF StartsWith(v, <<"3">>) /\ Len(parts) >= 2
        THEN Dotted(parts[1], parts[2])
        ELSE V311

\* normalize_version
NormalizeVersion(version) ==
    LET v == StripWhitespace(Lower(version))
        vc == Replace(v, <<" ">>, <<>>)
        hits == {i \in 1..Len(NormalizeKeys) :
                    \/ NormalizeKeys[i] = vc
                    \/ Contains(NormalizeKeys[i], vc) /\ StartsWith(NormalizeKeys[i], vc)
                    \/ StartsWith(NormalizeKeys[i], vc)}
        parts == Split(version, ".")
    IN  IF StartsWith(v, PyPyPrefix)
        THEN IF hits # {}
             THEN NormalizeKeys[CHOOSE i \in hits : \A h \in hits : i <= h]
             ELSE IF Contains(v, V311) \/ Contains(v, <<"3", "1", "1">>)
             THEN PyPyPrefix \o V311
             ELSE IF Contains(v, V310) \/ Contains(v, <<"3", "1", "0">>)
             THEN PyPyPrefix \o V310
             ELSE IF Contains(v, V39) \/ Contains(v, <<"3", "9">>)
             THEN PyPyPrefix \o V39
             ELSE IF Contains(v, <<"2">>) \/ Contains(v, <<"2", "7">>)
             THEN PyPyPrefix \o V27
             ELSE PyPyPrefix \o V311
        ELSE IF StartsWith(v, JythonPrefix) THEN VJython
        ELSE IF StartsWith(v, <<"2">>) THEN V27
        ELSE IF StartsWith(v, <<"3">>)
        THEN IF Len(parts) >= 2 THEN Dotted(parts[1], parts[2]) ELSE V311
        ELSE V311

----------------------------------------------------------------------------
(* normalize_version on its own *)

\* what an identifier is made of: blanks in front, a family word, a version
\* number well or badly formed, something behind it
Leads ==
    {<<>>, <<" ">>}

Families ==
    {<<>>, <<"p", "y", "p", "y">>, <<"P", "y", "P", "y">>,
     <<"j", "y", "t", "h", "o", "n">>, <<"p", "y">>}

Numbers ==
    {<<>>, <<"2">>, <<"3">>, <<"2", ".", "7">>, <<"2", ".", "6">>,
     <<"3", ".", "9">>, <<"3", ".", "1", "1">>, <<"3", ".", "1", "0">>,
     <<"3", ".", "1", "1", ".", "5">>, <<"3", "1", "1">>, <<"3", "9">>,
     <<"2", "7">>, <<"3", ".", "x">>, <<"3", ".", "1", "2", "r", "c", "1">>,
     <<"3", ".">>, <<"4", ".", "0">>, <<"1">>, V312}

Tails ==
    {<<>>, <<" ">>, <<"\n">>}

ShortAlphabet == {"2", "3", ".", "1", "p", " "}

\* the identifiers of the model: the made-up ones, and every string of up to
\* three characters of a small alphabet
Identifiers ==
    {lead \o family \o number \o tail :
        lead \in Leads, family \in Families, number \in Numbers, tail \in Tails}
        \cup {<<>>}
        \cup {<<a>> : a \in ShortAlphabet}
        \cup {<<a, b>> : a, b \in ShortAlphabet}
        \cup {<<a, b, c>> : a, b, c \in ShortAlphabet}

InitNormalize ==
    /\ world = AnyMachine.world
    /\ fs = AnyMachine.fs
    /\ out = AnyMachine.out
    /\ pyenvVersions = AnyMachine.pyenvVersions
    /\ envTarget = NoTarget
    /\ InitProcs
    /\ \E version \in Identifiers : call = [fn |-> "none", version |-> version]

\* detector.normalize_version(version)
NormalizeVersionCall ==
    /\ call.fn = "none"
    /\ call' = [fn |-> "normalize_version", version |-> call.version,
                ret |-> NormalizeVersion(call.version)]
    /\ UNCHANGED <<world, fs, out, pyenvVersions, pc, args, loc, log, prev, envTarget>>

\* detector.normalize_version applied to what it returned
NormalizeVersionAgain ==
    /\ call.fn = "normalize_version"
    /\ call' = [fn |-> "normalize_version:twice", version |-> call.version,
                ret |-> call.ret, again |-> NormalizeVersion(call.ret)]
    /\ UNCHANGED <<world, fs, out, pyenvVersions, pc, args, loc, log, prev, envTarget>>

NextNormalize ==
    \/ NormalizeVersionCall
    \/ NormalizeVersionAgain

SpecNormalize == InitNormalize /\ [][NextNormalize]_vars

----------------------------------------------------------------------------
(* normalize_version: properties *)

\* C21: normalize_version is idempotent:
\* normalize_version(normalize_version(v)) = normalize_version(v)
C21_NormalizeIdempotent ==
    call.fn = "normalize_version:twice" => call.again = call.ret

C21_Witness ==
    /\ call.fn = "normalize_version:twice"
    /\ call.version = <<"3", ".", "1", "1", ".", "5">>
    /\ call.ret = V311
    /\ call.again = V311

\* normalize_version has returned
Normalized == call.fn \in {"normalize_version", "normalize_version:twice"}

AllDigits(s) == s # <<>> /\ \A i \in 1..Len(s) : s[i] \in Digits

\* a numeric major.minor
NumericMajorMinor(s) ==
    LET parts == Split(s, ".")
    IN  Len(parts) = 2 /\ AllDigits(parts[1]) /\ AllDigits(parts[2])

KnownPyPy == {NormalizeKeys[i] : i \in 1..Len(NormalizeKeys)}

\* C22: normalize_version returns, for every string, a canonical identifier:
\* a numeric major.minor, one of the known pypyX.Y, or jython2.7
C22_NormalizeGivesCanonical ==
    Normalized =>
        \/ NumericMajorMinor(call.ret)
        \/ call.ret \in KnownPyPy
        \/ call.ret = VJython

\* the version is 3.X or 3.X.Y, X and Y numbers
ThreeDotted(version) ==
    LET parts == Split(version, ".")
    IN  /\ Len(parts) \in {2, 3}
        /\ parts[1] = <<"3">>
        /\ \A i \in 2..Len(parts) : AllDigits(parts[i])

C37_PyPyMajorPreserved ==
    (/\ call.fn = "normalize_version"
     /\ StartsWith(call.version, PyPyPrefix \o <<"3">>)) =>
        /\ StartsWith(call.ret, PyPyPrefix \o <<"3">>)
        /\ call.ret # PyPyPrefix \o V27

----------------------------------------------------------------------------
(* PythonVersionDetector._detect_encoding *)

\* f.read(1024)
ReadLimit == 1024

\* .split('\n')[:2]
DeclarationLines == 2

\* a byte that is no part of any UTF-8 character
InvalidByte == "0xFF"

\* first_bytes.decode('utf-8', errors='ignore'): the undecodable bytes are
\* dropped, so the decoding itself never fails and no later codec is tried
DecodeIgnore(bytes) == SelectSeq(bytes, LAMBDA b : b # InvalidByte)

\* what [-\w.] matches
CodecChars ==
    {LowerLetters[i] : i \in 1..Len(LowerLetters)}
        \cup {UpperLetters[i] : i \in 1..Len(UpperLetters)}
        \cup Digits \cup {"_", "-", "."}

\* where a greedy [-\w.]* begun at index i ends
RECURSIVE SkipCodecChars(_, _)
SkipCodecChars(s, i) ==
    IF i <= Len(s) /\ s[i] \in CodecChars THEN SkipCodecChars(s, i + 1) ELSE i

Coding == <<"c", "o", "d", "i", "n", "g">>

\* CODING_PATTERN = coding[=:]\s*([-\w.]+), IGNORECASE, matched at index i:
\* the group, <<>> when the pattern does not match there
CodingGroup(line, i) ==
    LET b == SkipWhitespace(line, i + Len(Coding) + 1)
        e == SkipCodecChars(line, b)
    IN  IF /\ i + Len(Coding) <= Len(line)
           /\ Lower(SubSeq(line, i, i + Len(Coding) - 1)) = Coding
           /\ line[i + Len(Coding)] \in {"=", ":"}
           /\ e > b
        THEN SubSeq(line, b, e - 1)
        ELSE <<>>

\* CODING_PATTERN.search(line): group 1 of the leftmost match, None without one
CodingSearch(line) ==
    LET hits == {i \in 1..Len(line) : CodingGroup(line, i) # <<>>}
    IN  IF hits = {} THEN None
        ELSE CodingGroup(line, CHOOSE i \in hits : \A j \in hits : i <= j)

Utf8 == <<"u", "t", "f", "-", "8">>
Cp1251 == <<"c", "p", "1", "2", "5", "1">>
Latin1 == <<"l", "a", "t", "i", "n", "1">>

\* encoding_map.get(encoding, encoding)
EncodingMap(encoding) ==
    CASE encoding = <<"u", "t", "f", "8">> -> Utf8
      [] encoding = Utf8 -> Utf8
      [] encoding = Cp1251 -> Cp1251
      [] encoding = <<"w", "i", "n", "d", "o", "w", "s", "-", "1", "2", "5", "1">> -> Cp1251
      [] encoding = Latin1 -> Latin1
      [] encoding = <<"i", "s", "o", "-", "8", "8", "5", "9", "-", "1">> -> Latin1
      [] OTHER -> encoding

\* the for loop over the lines: the first line of `lines` the pattern is found
\* in decides, falling out of the loop gives the default
FirstDeclared(lines) ==
    LET found == {k \in 1..Len(lines) : CodingSearch(lines[k]) # None}
    IN  IF found = {} THEN Utf8
        ELSE EncodingMap(Lower(CodingSearch(
                 lines[CHOOSE k \in found : \A j \in found : k <= j])))

\* the body of the try block; "raise" when open() or read() fails
ScanDeclaration(io, bytes, lines) ==
    IF io # "ok" THEN [raised |-> TRUE, value |-> None]
    ELSE [raised |-> FALSE,
          value |-> FirstDeclared(
              Take(Split(DecodeIgnore(Take(bytes, ReadLimit)), "\n"), lines))]

\* _detect_encoding without the [:2]
DetectEncodingAnyLine(io, bytes) ==
    LET r == ScanDeclaration(io, bytes, Len(bytes) + 1)
    IN  IF r.raised THEN [raised |-> FALSE, value |-> Utf8] ELSE r

\* detector._detect_encoding(script_path): `except Exception: pass` and the
\* default after it
DetectEncoding(io, bytes) ==
    LET r == ScanDeclaration(io, bytes, DeclarationLines)
    IN  IF r.raised THEN [raised |-> FALSE, value |-> Utf8] ELSE r

----------------------------------------------------------------------------
(* _detect_encoding on its own *)

\* a line of n comment characters
Filler(n) == [i \in 1..n |-> "#"]

PythonShebang ==
    <<"#", "!", "/", "u", "s", "r", "/", "b", "i", "n", "/", "e", "n", "v",
      " ", "p", "y", "t", "h", "o", "n">>
PlainComment ==
    <<"#", " ", "a", " ", "s", "c", "r", "i", "p", "t">>

\* the lines before the declaration: none, one or two short ones, one longer
\* than the part of the file that is read, one that ends shortly before it
LinesBefore ==
    {<<>>, <<PythonShebang>>, <<PythonShebang, PlainComment>>,
     <<Filler(ReadLimit + 6)>>, <<Filler(ReadLimit - 14)>>,
     <<Filler(ReadLimit - 14), PlainComment>>}

EmacsCp1251Line ==
    <<"#", " ", "-", "*", "-", " ", "c", "o", "d", "i", "n", "g", ":", " ",
      "c", "p", "1", "2", "5", "1", " ", "-", "*", "-">>
EmacsWindows1251Line ==
    <<"#", " ", "-", "*", "-", " ", "c", "o", "d", "i", "n", "g", ":", " ",
      "W", "i", "n", "d", "o", "w", "s", "-", "1", "2", "5", "1", " ", "-",
      "*", "-">>
PlainUtf8Line ==
    <<"#", " ", "c", "o", "d", "i", "n", "g", "=", "u", "t", "f", "8">>
UpperUtf8Line ==
    <<"#", " ", "c", "o", "d", "i", "n", "g", ":", " ", "U", "T", "F", "-",
      "8">>
VimLatin1Line ==
    <<"#", " ", "v", "i", "m", ":", " ", "s", "e", "t", " ", "f", "i", "l",
      "e", "e", "n", "c", "o", "d", "i", "n", "g", "=", "l", "a", "t", "i",
      "n", "1", " ", ":">>
Iso88591Line ==
    <<"#", " ", "c", "o", "d", "i", "n", "g", ":", "i", "s", "o", "-", "8",
      "8", "5", "9", "-", "1">>
Koi8rLine ==
    <<"#", " ", "c", "o", "d", "i", "n", "g", ":", " ", "k", "o", "i", "8",
      "-", "r">>
NoCodecLine ==
    <<"#", " ", "c", "o", "d", "i", "n", "g", ":", " ">>
NoSeparatorLine ==
    <<"#", " ", "c", "o", "d", "i", "n", "g", " ", "c", "p", "1", "2", "5",
      "1">>
ImportOsLine ==
    <<"i", "m", "p", "o", "r", "t", " ", "o", "s">>

\* a declaration with an undecodable byte in the codec's name
BrokenCp1251Line ==
    <<"#", " ", "c", "o", "d", "i", "n", "g", ":", " ", "c", "p", InvalidByte,
      "1", "2", "5", "1">>

\* the line at the declaration's place: its bytes, the codec name written in
\* it (None when it declares none) and the canonical name of that codec
Declarations ==
    {[text |-> EmacsCp1251Line, names |-> <<"c", "p", "1", "2", "5", "1">>,
      canonical |-> Cp1251],
     [text |-> EmacsWindows1251Line, names |-> <<"W", "i", "n", "d", "o", "w", "s", "-", "1", "2", "5", "1">>,
      canonical |-> Cp1251],
     [text |-> PlainUtf8Line, names |-> <<"u", "t", "f", "8">>,
      canonical |-> Utf8],
     [text |-> UpperUtf8Line, names |-> <<"U", "T", "F", "-", "8">>,
      canonical |-> Utf8],
     [text |-> VimLatin1Line, names |-> <<"l", "a", "t", "i", "n", "1">>,
      canonical |-> Latin1],
     [text |-> Iso88591Line, names |-> <<"i", "s", "o", "-", "8", "8", "5", "9", "-", "1">>,
      canonical |-> Latin1],
     [text |-> Koi8rLine, names |-> <<"k", "o", "i", "8", "-", "r">>,
      canonical |-> <<"k", "o", "i", "8", "-", "r">>],
     [text |-> BrokenCp1251Line, names |-> Cp1251, canonical |-> Cp1251],
     [text |-> NoCodecLine, names |-> None, canonical |-> None],
     [text |-> NoSeparatorLine, names |-> None, canonical |-> None],
     [text |-> ImportOsLine, names |-> None, canonical |-> None]}

LinesAfter == {<<>>, <<ImportOsLine>>}

\* lines joined with '\n', one after each line
RECURSIVE Unlines(_)
Unlines(lines) ==
    IF lines = <<>> THEN <<>> ELSE Head(lines) \o NewLine \o Unlines(Tail(lines))

\* the bytes of the file made of the lines `before`, the declaration's line
\* and the lines `after`
FileBytes(c) == Unlines(c.before) \o c.declaration.text \o NewLine \o Unlines(c.after)

InitEncoding ==
    /\ world = AnyMachine.world
    /\ fs = AnyMachine.fs
    /\ out = AnyMachine.out
    /\ pyenvVersions = AnyMachine.pyenvVersions
    /\ envTarget = NoTarget
    /\ InitProcs
    /\ \E before \in LinesBefore, declaration \in Declarations,
          after \in LinesAfter, io \in {"ok", "missing", "ioerror"} :
         call = [fn |-> "none", io |-> io, before |-> before,
                 declaration |-> declaration, after |-> after]

\* detector._detect_encoding(script_path)
DetectEncodingCall ==
    /\ call.fn = "none"
    /\ call' = [call EXCEPT !.fn = "_detect_encoding"] @@
               [ret |-> DetectEncoding(call.io, FileBytes(call))]
    /\ UNCHANGED <<world, fs, out, pyenvVersions, pc, args, loc, log, prev, envTarget>>

NextEncoding == DetectEncodingCall

SpecEncoding == InitEncoding /\ [][NextEncoding]_vars

----------------------------------------------------------------------------
(* _detect_encoding: properties *)

\* _detect_encoding has been applied
EncodingDetected == call.fn = "_detect_encoding"

\* the declaration stands on line 1 or 2 of the file and names a codec
DeclaredInFirstLines ==
    Len(call.before) < DeclarationLines /\ call.declaration.names # None

\* the number of bytes before the declaration's line
BytesBefore == Len(Unlines(call.before))

\* C24 as stated: _detect_encoding never raises; it returns the canonical name
\* of the codec declared on line 1 or 2 of the file, and 'utf-8' when the file
\* is missing or unreadable, declares no codec, or declares it after line 2.
C24_DeclaredCodecReturned ==
    EncodingDetected =>
        /\ ~call.ret.raised
        /\ call.ret.value =
             IF call.io = "ok" /\ DeclaredInFirstLines
             THEN call.declaration.canonical ELSE Utf8

\* the lowered codec names that a declaration cut short by the read limit can
\* give: the non-empty beginnings of the name
Beginnings(name) == {Lower(SubSeq(name, 1, n)) : n \in 1..Len(name)}

\* C24 amended: _detect_encoding never raises; it looks at line 1 and 2 of the
\* first 1024 bytes only.  A declaration that lies wholly within them gives its
\* codec's canonical name; one that begins after them, stands after line 2,
\* names no codec, or is in a file that cannot be read gives 'utf-8'; one that
\* the limit cuts gives 'utf-8' or a beginning of the name.
C24_DeclaredWithinReadLimit ==
    EncodingDetected =>
        /\ ~call.ret.raised
        /\ IF call.io # "ok" \/ ~DeclaredInFirstLines
              \/ BytesBefore >= ReadLimit
           THEN call.ret.value = Utf8
           ELSE IF BytesBefore + Len(call.declaration.text) <= ReadLimit
           THEN call.ret.value = call.declaration.canonical
           ELSE \/ call.ret.value = Utf8
                \/ \E b \in Beginnings(call.declaration.names) :
                     call.ret.value = EncodingMap(b)

\* a declaration on line 2 under an alias: the canonical name is returned
C24_Witness ==
    /\ EncodingDetected
    /\ call.io = "ok"
    /\ call.before = <<PythonShebang>>
    /\ call.declaration.text = EmacsWindows1251Line
    /\ call.ret = [raised |-> FALSE, value |-> Cp1251]

----------------------------------------------------------------------------
(* EnvironmentManager._check_interactive_input and run_script from the     *)
(* environment on: requirements, child environment, streams, launch        *)

RawInputWord == <<"r", "a", "w", "_", "i", "n", "p", "u", "t">>
InputCall == <<"i", "n", "p", "u", "t", "(">>

\* _check_interactive_input(script_path, encoding) on a script that can be
\* read (with errors='ignore' the first codec tried yields the text):
\* 'raw_input' in content or
\*     ('input(' in content and 'input(' not in content.replace('raw_input', ''))
CheckInteractiveInput(content) ==
    \/ Contains(content, RawInputWord)
    \/ /\ Contains(content, InputCall)
       /\ ~Contains(Replace(content, RawInputWord, <<>>), InputCall)

\* f"{encoding}:replace"
WithReplace(encoding) == encoding \o <<":", "r", "e", "p", "l", "a", "c", "e">>

\* the child's PYTHONIOENCODING with the caller's variables applied last
ChildIOEncodingCallerLast(a) ==
    IF a.override # None THEN a.override
    ELSE IF a.encoding # None THEN WithReplace(a.encoding) ELSE None

\* env = os.environ.copy(); env.update(env_vars);
\* if encoding: env['PYTHONIOENCODING'] = f"{encoding}:replace" (both branches
\* of the version test, and the Jython branch): the value of PYTHONIOENCODING
\* in the child's environment, None when unset.  os.environ holds none.
ChildIOEncoding(a) ==
    IF a.encoding # None THEN WithReplace(a.encoding) ELSE a.override

\* the requirements step with a failed installation raised to the caller
RequirementsStepStrict(a, o) ==
    IF a.requirements = "none" \/ a.no_deps \/ a.quiet
    THEN [raised |-> "none", events |-> <<>>]
    ELSE IF a.requirements = "relative:missing"
    THEN [raised |-> "FileNotFoundError", events |-> <<>>]
    ELSE IF o.pip = "ok"
    THEN [raised |-> "none",
          events |-> <<"requirements:install", "requirements:ok">>]
    ELSE [raised |-> "RuntimeError",
          events |-> <<"requirements:install", "requirements:failed">>]

\* run_script, CPython and PyPy: `if requirements_path and not no_deps and
\* not quiet:`, the search for a relative path, install_requirements.  A path
\* that is absolute is handed on as it is.  install_requirements gives False
\* for a non-zero pip and for any exception; its result is not looked at, and
\* run_script has just seen the launcher exist.
RequirementsStep(a, o) ==
    IF a.requirements = "none" \/ a.no_deps \/ a.quiet
    THEN [raised |-> "none", events |-> <<>>]
    ELSE IF a.requirements = "relative:missing"
    THEN [raised |-> "FileNotFoundError", events |-> <<>>]
    ELSE [raised |-> "none",
          events |-> <<"requirements:install",
                       IF o.pip = "ok" THEN "requirements:ok"
                       ELSE "requirements:failed">>]

\* run_script, Jython: `if requirements_path and not no_deps:`, any path that
\* is not found raises, the pip run is a bare subprocess.run whose return
\* code is not looked at (java has just been started by java_available)
RequirementsStepJython(a, o) ==
    IF a.requirements = "none" \/ a.no_deps
    THEN [raised |-> "none", events |-> <<>>]
    ELSE IF a.requirements # "found"
    THEN [raised |-> "FileNotFoundError", events |-> <<>>]
    ELSE [raised |-> "none",
          events |-> <<"requirements:install",
                       IF o.pip = "ok" THEN "requirements:ok"
                       ELSE "requirements:failed">>]

\* the child's streams: "inherit" is no argument to subprocess.run, "parent"
\* the parent's own stream, "log" the log file.  With a log file sys.stdout
\* and sys.stderr have been replaced by it before they are passed on.
ChildStreams(a, script_has_input) ==
    IF a.log_file
    THEN [stdin |-> "parent", stdout |-> "log", stderr |-> "log"]
    ELSE IF script_has_input
    THEN [stdin |-> "parent", stdout |-> "parent", stderr |-> "parent"]
    ELSE [stdin |-> "inherit", stdout |-> "inherit", stderr |-> "inherit"]

\* the Jython branch: stdout=log_stream, stderr=subprocess.STDOUT or nothing
ChildStreamsJython(a) ==
    IF a.log_file
    THEN [stdin |-> "inherit", stdout |-> "log", stderr |-> "log"]
    ELSE [stdin |-> "inherit", stdout |-> "inherit", stderr |-> "inherit"]

NotRun ==
    [raised |-> "none", ret |-> "none", events |-> <<>>, env |-> None,
     streams |-> [stdin |-> "none", stdout |-> "none", stderr |-> "none"],
     checked |-> FALSE, has_input |-> FALSE]

\* run_script(script_path, python_version, ...) from the point where the
\* runtime or the environment is asked for; o holds what the machine answers:
\* whether create_environment gives an environment with a launcher (java and
\* the jar for Jython), how pip ends, how the child ends
RunScriptResult(a, o) ==
    LET jython == IsAlternativeInterpreter(a.version) = "jython"
        deps == IF jython THEN RequirementsStepJython(a, o)
                ELSE RequirementsStep(a, o)
        has_input == CheckInteractiveInput(a.script)
        ready == [NotRun EXCEPT
                    !.events = <<"environment">> \o deps.events \o <<"launch">>,
                    !.env = ChildIOEncoding(a),
                    !.streams = IF jython THEN ChildStreamsJython(a)
                                ELSE ChildStreams(a, has_input),
                    !.checked = ~jython,
                    !.has_input = ~jython /\ has_input]
    IN  IF ~o.environment THEN [NotRun EXCEPT !.raised = "RuntimeError"]
        ELSE IF deps.raised # "none"
        THEN [NotRun EXCEPT !.raised = deps.raised,
                            !.events = <<"environment">> \o deps.events]
        ELSE IF o.launch = "oserror" THEN [ready EXCEPT !.raised = "OSError"]
        ELSE [ready EXCEPT !.ret = o.launch]

----------------------------------------------------------------------------
(* run_script on its own *)

NoInputScript ==
    <<"x", " ", "=", " ", "1", "\n", "p", "r", "i", "n", "t", "(", "x", ")",
      "\n">>
RawInputScript ==
    <<"n", "a", "m", "e", " ", "=", " ", "r", "a", "w", "_", "i", "n", "p",
      "u", "t", "(", "'", "n", "'", ")", "\n">>
InputScript ==
    <<"n", "a", "m", "e", " ", "=", " ", "i", "n", "p", "u", "t", "(", "'",
      "n", "'", ")", "\n">>
BothInputScript ==
    <<"a", " ", "=", " ", "r", "a", "w", "_", "i", "n", "p", "u", "t", "(",
      ")", "\n", "b", " ", "=", " ", "i", "n", "p", "u", "t", "(", ")", "\n">>
InputNameScript ==
    <<"u", "s", "e", "r", "_", "i", "n", "p", "u", "t", " ", "=", " ", "1",
      "\n">>
Ascii ==
    <<"a", "s", "c", "i", "i">>

ScriptTexts ==
    {NoInputScript, RawInputScript, InputScript, BothInputScript, InputNameScript}

RunVersions == {V27, V311, PyPyPrefix \o V311, VJython}

\* the arguments of run_script: the version, quiet, no_deps, the requirements
\* path (none, one that is found, a relative or an absolute one that is not),
\* the encoding, the PYTHONIOENCODING among env_vars, a log file, the script
RunArguments ==
    [version : RunVersions, quiet : BOOLEAN, no_deps : BOOLEAN,
     requirements : {"none", "found", "relative:missing", "absolute:missing"},
     encoding : {None, Utf8, Cp1251}, override : {None, Ascii},
     log_file : BOOLEAN, script : ScriptTexts]

\* what the machine answers; pip cannot succeed on a file that is not there
RunOutcomes(a) ==
    {o \in [environment : BOOLEAN, pip : {"ok", "nonzero", "exception"},
            launch : {"0", "1", "oserror"}] :
        a.requirements = "absolute:missing" => o.pip # "ok"}

InitRun ==
    /\ world = AnyMachine.world
    /\ fs = AnyMachine.fs
    /\ out = AnyMachine.out
    /\ pyenvVersions = AnyMachine.pyenvVersions
    /\ envTarget = NoTarget
    /\ InitProcs
    /\ \E a \in RunArguments : call = [fn |-> "none", a |-> a]

\* manager.run_script(...)
RunScriptCall ==
    /\ call.fn = "none"
    /\ \E o \in RunOutcomes(call.a) :
         call' = [fn |-> "run_script", a |-> call.a, o |-> o,
                  r |-> RunScriptResult(call.a, o)]
    /\ UNCHANGED <<world, fs, out, pyenvVersions, pc, args, loc, log, prev, envTarget>>

NextRun == RunScriptCall

SpecRun == InitRun /\ [][NextRun]_vars

----------------------------------------------------------------------------
(* run_script: properties *)

\* run_script has been called and has come to start the child
Launched ==
    /\ call.fn = "run_script"
    /\ \E i \in 1..Len(call.r.events) : call.r.events[i] = "launch"

\* the script's text holds a raw_input or an input( call
HoldsInputCall(content) ==
    Contains(content, RawInputWord) \/ Contains(content, InputCall)

\* C25: _check_interactive_input is true exactly for the scripts whose text
\* holds raw_input or input(, and for those run_script gives the child the
\* parent's own stdin, stdout and stderr.
C25_InteractiveScriptsWired ==
    (Launched /\ call.r.checked) =>
        /\ call.r.has_input = HoldsInputCall(call.a.script)
        /\ call.r.has_input =>
             call.r.streams =
                 [stdin |-> "parent", stdout |-> "parent", stderr |-> "parent"]

\* place of the event e in the events of the call, 0 when it is not there
PlaceOf(e) ==
    IF \E i \in 1..Len(call.r.events) : call.r.events[i] = e
    THEN CHOOSE i \in 1..Len(call.r.events) : call.r.events[i] = e
    ELSE 0

\* C26: with a requirements file that exists and no_deps false, the installer
\* runs after the environment is there and before the child is started,
\* whatever quiet is.
C26_RequirementsInstalledWhateverQuiet ==
    (/\ call.fn = "run_script"
     /\ call.o.environment
     /\ call.a.requirements = "found"
     /\ ~call.a.no_deps) =>
        /\ PlaceOf("environment") > 0
        /\ PlaceOf("environment") < PlaceOf("requirements:install")
        /\ PlaceOf("requirements:install") < PlaceOf("launch")

Cp1251Replace ==
    <<"c", "p", "1", "2", "5", "1", ":", "r", "e", "p", "l", "a", "c", "e">>
Utf8Replace ==
    <<"u", "t", "f", "-", "8", ":", "r", "e", "p", "l", "a", "c", "e">>

\* C28: when an encoding is given, the child's environment holds
\* PYTHONIOENCODING = '<encoding>:replace', for CPython 2 and 3, PyPy and
\* Jython, also when env_vars names another PYTHONIOENCODING.
C28_ChildIOEncodingReplace ==
    (Launched /\ call.a.encoding # None) =>
        /\ call.a.encoding = Cp1251 => call.r.env = Cp1251Replace
        /\ call.a.encoding = Utf8 => call.r.env = Utf8Replace

\* Jython with cp1251 and PYTHONIOENCODING=ascii among env_vars
C28_Witness ==
    /\ Launched
    /\ call.a.version = VJython
    /\ call.a.encoding = Cp1251
    /\ call.a.override = Ascii
    /\ call.r.env = Cp1251Replace

----------------------------------------------------------------------------
(* the download steps: properties *)

\* the files a download step makes for its own use: the archive it fetches
\* (zip or tarball) and the temporary MSI
TransientArtifacts == {"archive", "msitmp"}

\* C29: once the download step has returned, no archive and no temporary MSI
\* it made is left, whether it succeeded or failed.
C29_NoTransientArtifactRemains ==
    (\A p \in Procs : pc[p] \notin {"i_download", "i_try_alt"}) =>
        fs \cap TransientArtifacts = {}

----------------------------------------------------------------------------
(* The alternative interpreters installed into several directories *)

\* two install directories on one machine; the cache under the home
\* directory is the same for both
InstallDirs == {"A", "B"}

CacheFiles == {"cachejar"}

\* the files install_jython and install_pypy see when they install into d
SeenFrom(c, d) == c.dirs[d] \cup c.cache

\* the state after an installation into d that ended as r; fetched holds the
\* artifacts that have been downloaded successfully so far
Installed(c, fn, d, r) ==
    [fn |-> fn, java |-> c.java,
     dirs |-> [c.dirs EXCEPT ![d] = r.fs \ CacheFiles],
     cache |-> r.fs \cap CacheFiles,
     fetched |-> c.fetched
                 \cup (IF \E i \in 1..Len(r.ev) : r.ev[i] = "fetch"
                       THEN {"jar"} ELSE {}),
     step |-> [dir |-> d, ev |-> r.ev, ret |-> r.ret,
               fetchedBefore |-> c.fetched, hadJar |-> "jar" \in c.dirs[d]]]

InitCache ==
    /\ world = AnyMachine.world
    /\ fs = AnyMachine.fs
    /\ out = AnyMachine.out
    /\ pyenvVersions = AnyMachine.pyenvVersions
    /\ envTarget = NoTarget
    /\ InitProcs
    /\ \E java \in BOOLEAN, cache \in SUBSET CacheFiles :
         call = [fn |-> "none", java |-> java,
                 dirs |-> [d \in InstallDirs |-> {}], cache |-> cache,
                 fetched |-> {},
                 step |-> [dir |-> "none", ev |-> <<>>, ret |-> NoPath,
                           fetchedBefore |-> {}, hadJar |-> FALSE]]

\* alternative_interpreters.install_jython(install_dir)
InstallJythonInto ==
    /\ \E d \in InstallDirs, net \in NetOutcomes :
         call' = Installed(call, "install_jython", d,
                           InstallJython(SeenFrom(call, d), call.java, net))
    /\ UNCHANGED <<world, fs, out, pyenvVersions, pc, args, loc, log, prev, envTarget>>

\* alternative_interpreters.install_pypy(version, install_dir)
InstallPyPyInto ==
    /\ \E d \in InstallDirs, version \in {VPyPy311, VPyPy27} :
         call' = Installed(call, "install_pypy", d,
                           InstallPyPy(version, SeenFrom(call, d)))
    /\ UNCHANGED <<world, fs, out, pyenvVersions, pc, args, loc, log, prev, envTarget>>

NextCache ==
    \/ InstallJythonInto
    \/ InstallPyPyInto

SpecCache == InitCache /\ [][NextCache]_vars

----------------------------------------------------------------------------
(* the shared cache: properties *)

\* C30: once the Jython jar has been downloaded successfully, a later
\* install_jython, into the same or another install directory, makes no
\* network fetch: it returns the jar, copied from the cache when the
\* directory did not hold it.  (install_pypy never comes to download.)
C30_DownloadedOnceThenCached ==
    (call.fn = "install_jython" /\ "jar" \in call.step.fetchedBefore) =>
        /\ \A i \in 1..Len(call.step.ev) :
             call.step.ev[i] \notin {"fetch", "fetch:failed"}
        /\ call.step.ret = "jar"
        /\ ~call.step.hadJar => call.step.ev = <<"java", "copy">>

\* the jar was downloaded into A; the installation into B copies it
C30_Witness ==
    /\ call.fn = "install_jython"
    /\ "jar" \in call.step.fetchedBefore
    /\ call.step.dir = "B"
    /\ ~call.step.hadJar
    /\ call.step.ev = <<"java", "copy">>
    /\ call.dirs = [d \in InstallDirs |-> {"jythondir", "jar"}]

----------------------------------------------------------------------------
(* Jython without Java: properties *)

\* install_python has ended for a Jython request on a machine without java
JythonWithoutJava(p) ==
    world.version = VJython /\ ~world.java /\ pc[p] = "i_ret"

\* C31: without java, install_python for Jython ends with the error that
\* tells the user to install Java, and neither downloads nor copies the jar.
C31_NoJavaFailsWithJavaMessage ==
    \A p \in Procs :
        JythonWithoutJava(p) =>
            /\ loc[p].result = "jython_failed"
            /\ \A i \in 1..Len(log[p]) :
                 log[p][i] \notin {"fetch", "fetch:failed", "copy"}

----------------------------------------------------------------------------
(* install_pypy: properties *)

\* install_python has ended after running install_pypy for a version of the
\* release table, and no download or extraction of that run has failed
PyPyInstallRan(p) ==
    /\ pc[p] = "i_ret"
    /\ IsAlternativeInterpreter(world.version) = "pypy"
    /\ HasPyPyUrl(world.version)
    /\ \E i \in 1..Len(log[p]) : log[p][i] = "mkdir"
    /\ \A i \in 1..Len(log[p]) : log[p][i] \notin {"fetch:failed", "extract:failed"}

\* C34: install_python for a PyPy version of the release table, when neither
\* the download nor the extraction of install_pypy fails, returns the path of
\* the executable that exists under <install_dir>/<pypyX.Y>/pypy, and does not
\* raise.
C34_PyPyInstallReturnsExecutable ==
    \A p \in Procs : PyPyInstallRan(p) =>
        /\ loc[p].result = "path"
        /\ loc[p].path = "pypyexe"
        /\ "pypyexe" \in fs

----------------------------------------------------------------------------
(* docker_runner.get_docker_image *)

\* the keys of DOCKER_IMAGES in the order of the dict
DockerImageKeys ==
    <<<<"2", ".", "7">>,
      <<"3", ".", "6">>,
      <<"3", ".", "7">>,
      <<"3", ".", "8">>,
      <<"3", ".", "9">>,
      <<"3", ".", "1", "0">>,
      <<"3", ".", "1", "1">>,
      <<"3", ".", "1", "2">>,
      <<"3", ".", "1", "3">>,
      <<"3", ".", "1", "4">>,
      PyPyPrefix \o <<"2", ".", "7">>,
      PyPyPrefix \o <<"3", ".", "9">>,
      PyPyPrefix \o <<"3", ".", "1", "0">>,
      PyPyPrefix \o <<"3", ".", "1", "1">>>>

PythonFamily == <<"p", "y", "t", "h", "o", "n">>

\* the image name <family>:<tag>-slim
SlimImage(family, tag) == family \o <<":">> \o tag \o <<"-", "s", "l", "i", "m">>

\* DOCKER_IMAGES[key]
DockerImages(key) ==
    IF StartsWith(key, PyPyPrefix)
    THEN SlimImage(PyPyPrefix, SubSeq(key, Len(PyPyPrefix) + 1, Len(key)))
    ELSE SlimImage(PythonFamily, key)

IsDockerKey(v) == \E k \in 1..Len(DockerImageKeys) : DockerImageKeys[k] = v

\* get_docker_image(python_version)
GetDockerImage(python_version) ==
    LET v == StripWhitespace(Lower(python_version))
        pypyKeys == {k \in 1..Len(DockerImageKeys) :
                        /\ StartsWith(DockerImageKeys[k], PyPyPrefix)
                        /\ Contains(v, DockerImageKeys[k])}
        bare == Replace(v, PyPyPrefix, <<>>)
        pparts == Split(bare, ".")
        parts == Split(v, ".")
    IN  IF IsDockerKey(v) THEN DockerImages(v)
        ELSE IF StartsWith(v, PyPyPrefix)
        THEN IF pypyKeys # {}
             THEN DockerImages(DockerImageKeys[
                      CHOOSE k \in pypyKeys : \A j \in pypyKeys : k <= j])
             ELSE IF Len(pparts) >= 2
             THEN SlimImage(PyPyPrefix, pparts[1] \o <<".">> \o pparts[2])
             ELSE SlimImage(PyPyPrefix, bare)
        ELSE IF Len(parts) >= 2
        THEN SlimImage(PythonFamily, parts[1] \o <<".">> \o parts[2])
        ELSE IF parts[1] = <<"2">> THEN SlimImage(PythonFamily, V27)
        ELSE SlimImage(PythonFamily, <<"3", ".", "1", "3">>)

----------------------------------------------------------------------------
(* get_docker_image on its own *)

\* a request: the family word, the major.minor number, a patch component and
\* the blanks around it
DockerRequests ==
    [lead : {<<>>, <<" ">>},
     family : {<<>>, PyPyPrefix, <<"P", "y", "P", "y">>, JythonPrefix},
     number : {<<>>, V27, V39, V310, V311, <<"3", ".", "1", "3">>,
               <<"1", ".", "0">>, <<"3">>, <<"2">>},
     patch : {<<>>, <<".", "5">>}]

\* the version string of a request
Requested(q) == q.lead \o q.family \o q.number \o q.patch

InitDocker ==
    /\ world = AnyMachine.world
    /\ fs = AnyMachine.fs
    /\ out = AnyMachine.out
    /\ pyenvVersions = AnyMachine.pyenvVersions
    /\ envTarget = NoTarget
    /\ InitProcs
    /\ \E q \in DockerRequests : call = [fn |-> "none", q |-> q]

\* docker_runner.get_docker_image(python_version)
GetDockerImageCall ==
    /\ call.fn = "none"
    /\ call' = [fn |-> "get_docker_image", q |-> call.q,
                ret |-> GetDockerImage(Requested(call.q))]
    /\ UNCHANGED <<world, fs, out, pyenvVersions, pc, args, loc, log, prev, envTarget>>

NextDocker == GetDockerImageCall

SpecDocker == InitDocker /\ [][NextDocker]_vars

----------------------------------------------------------------------------
(* get_docker_image: properties *)

\* the numbers Docker images are known for, by family
KnownCPythonNumbers == {V27, V39, V310, V311, <<"3", ".", "1", "3">>}
KnownPyPyNumbers == {V27, V39, V310, V311}

\* a known CPython or PyPy version, with or without a patch component, gives
\* the image of its family and major.minor
KnownVersionGetsItsImage ==
    call.fn = "get_docker_image" =>
        /\ (/\ Lower(call.q.family) = PyPyPrefix
            /\ call.q.number \in KnownPyPyNumbers) =>
               call.ret = SlimImage(PyPyPrefix, call.q.number)
        /\ (/\ call.q.family = <<>>
            /\ call.q.number \in KnownCPythonNumbers) =>
               call.ret = SlimImage(PythonFamily, call.q.number)

\* C32: get_docker_image gives None for Jython and for a PyPy version no image
\* is known for, and '<family>:<major.minor>-slim' for a known CPython or PyPy
\* version, with or without a patch component.
C32_DockerImageOrNone ==
    /\ KnownVersionGetsItsImage
    /\ call.fn = "get_docker_image" =>
        /\ call.q.family = JythonPrefix => call.ret = None
        /\ (/\ Lower(call.q.family) = PyPyPrefix
            /\ call.q.number = <<"1", ".", "0">>) => call.ret = None

----------------------------------------------------------------------------
(* _find_available_versions on its own *)

\* the major.minor requests: every key of known_versions and, around them,
\* versions the table does not hold
MajorMinorRequests == {Dotted(Dec(major), Dec(minor)) : major \in 1..4, minor \in 0..16}

InitCandidates ==
    /\ world = AnyMachine.world
    /\ fs = AnyMachine.fs
    /\ out = AnyMachine.out
    /\ pyenvVersions = AnyMachine.pyenvVersions
    /\ envTarget = NoTarget
    /\ InitProcs
    /\ \E version \in MajorMinorRequests :
         call = [fn |-> "none", version |-> version]

\* installer._find_available_versions(version)
FindAvailableVersionsCall ==
    /\ call.fn = "none"
    /\ call' = [fn |-> "_find_available_versions", version |-> call.version,
                ret |-> FindAvailableVersions(call.version)]
    /\ UNCHANGED <<world, fs, out, pyenvVersions, pc, args, loc, log, prev, envTarget>>

NextCandidates == FindAvailableVersionsCall

SpecCandidates == InitCandidates /\ [][NextCandidates]_vars

----------------------------------------------------------------------------
(* _find_available_versions: properties *)

\* the number a string of digits writes
NumberOf(digits) == CHOOSE n \in 0..99 : Dec(n) = digits

\* the patch number of the candidate X.Y.Z
PatchOf(candidate) == NumberOf(Split(candidate, ".")[3])

\* the candidate has a patch component
HasPatch(candidate) == Len(Split(candidate, ".")) = 3

\* patch versions in strictly decreasing patch number, the form without a
\* patch last when it is in the list
MostSpecificFirst(list) ==
    /\ \A i, j \in 1..Len(list) :
         (i < j /\ HasPatch(list[i]) /\ HasPatch(list[j])) =>
             PatchOf(list[i]) > PatchOf(list[j])
    /\ \A i \in 1..Len(list) : ~HasPatch(list[i]) => i = Len(list)

\* C33: the candidates of a major.minor request are its patch versions in
\* strictly decreasing patch number, and the form without a patch, when it is
\* among them, comes last, for requests in the known table and outside it.
C33_CandidatesMostSpecificFirst ==
    call.fn = "_find_available_versions" => MostSpecificFirst(call.ret)

\* the same for the requests the table holds only
KnownCandidatesMostSpecificFirst ==
    (call.fn = "_find_available_versions" /\ call.version \in KnownKeys) =>
        MostSpecificFirst(call.ret)
----------------------------------------------------------------------------
(* cli.main: the --shell mode and the run of a script *)

\* what -p or the configuration file can hold (None: not given)
ExplicitVersions ==
    {None, <<"3">>, V311, <<"3", ".", "1", "1", ".", "5">>, V27, <<"2">>,
     VPyPy311, PyPyPrefix, VJython}

\* what detect_version has found in the script
DetectedVersions == {V27, V311, <<"3", ".", "8">>}

\* what a launched child ends with: its return code, or an exception of the
\* launcher (no Docker daemon, no runtime to be had)
ChildOutcomes ==
    {[raised |-> FALSE, rc |-> 0], [raised |-> FALSE, rc |-> 3],
     [raised |-> TRUE, rc |-> 1]}

\* `if args.python_version:`
Truthy(value) == value # None

\* env_name of create_environment when none is given, "python-jython" for
\* Jython
EnvName(python_version) ==
    IF IsAlternativeInterpreter(python_version) = "jython"
    THEN <<"p", "y", "t", "h", "o", "n", "-">> \o JythonPrefix
    ELSE <<"p", "y", "t", "h", "o", "n", "-">>
             \o Replace(python_version, Dot, <<"-">>)

\* `major, minor = version.split('.')[:2]` does not raise ValueError
SplitsIntoMajorMinor(version) == Len(Split(version, ".")) >= 2

\* main is at `parser.parse_args()`; use_docker is a local of main that holds
\* nothing before line 342
InitCli ==
    /\ world = AnyMachine.world
    /\ fs = AnyMachine.fs
    /\ out = AnyMachine.out
    /\ pyenvVersions = AnyMachine.pyenvVersions
    /\ envTarget = NoTarget
    /\ InitProcs
    /\ \E shell \in BOOLEAN, script \in {"none", "missing", "py"},
          p \in ExplicitVersions, config \in {None, <<"3">>, V27},
          docker \in BOOLEAN, detected \in DetectedVersions,
          installed \in BOOLEAN :
         call = [fn |-> "main", at |-> "parse", shell |-> shell,
                 script |-> script, p |-> p, python_version_arg |-> p,
                 config |-> config, docker |-> docker, detected |-> detected,
                 installed |-> installed, use_docker |-> "unbound",
                 python_version |-> None, env_name |-> None,
                 launched |-> "none", rc |-> 0 - 1, exit |-> 0 - 1,
                 error |-> "none"]

\* sys.exit(code), after `except Exception` has printed the error if any
Exit(c, code, error) == [c EXCEPT !.at = "exit", !.exit = code, !.error = error]

\* a launcher is called and main exits with what it returns, with 1 when it
\* raises
Launch(c, launcher, o) ==
    Exit([c EXCEPT !.launched = launcher, !.rc = o.rc],
         o.rc, IF o.raised THEN "RuntimeError" ELSE "none")

\* the --shell mode
MainShell ==
    /\ call.fn = "main" /\ call.at = "parse" /\ call.shell
    /\ \E o \in ChildOutcomes :
         LET python_version ==
                 NormalizeVersion(IF Truthy(call.python_version_arg)
                                  THEN call.python_version_arg ELSE V311)
             c == [call EXCEPT !.python_version = python_version]
         IN  call' = IF call.use_docker = "unbound"
                     THEN Exit(c, 1, "UnboundLocalError")
                     ELSE Launch(c, IF call.use_docker = "yes"
                                    THEN "run_shell_in_docker"
                                    ELSE "run_shell", o)
    /\ UNCHANGED <<world, fs, out, pyenvVersions, pc, args, loc, log, prev, envTarget>>

\* no --shell: the script must be named and must exist
MainCheckScript ==
    /\ call.fn = "main" /\ call.at = "parse" /\ ~call.shell
    /\ call' = IF call.script = "none" THEN Exit(call, 1, "no_script")
               ELSE IF call.script = "missing" THEN Exit(call, 1, "not_found")
               ELSE [call EXCEPT !.at = "config"]
    /\ UNCHANGED <<world, fs, out, pyenvVersions, pc, args, loc, log, prev, envTarget>>

\* the configuration file fills in what the command line has left out
MainConfig ==
    /\ call.fn = "main" /\ call.at = "config"
    /\ call' = [call EXCEPT
                  !.at = "version",
                  !.python_version_arg =
                      IF ~Truthy(call.python_version_arg) THEN call.config
                      ELSE call.python_version_arg,
                  !.use_docker = IF call.docker THEN "yes" ELSE "no"]
    /\ UNCHANGED <<world, fs, out, pyenvVersions, pc, args, loc, log, prev, envTarget>>

\* the version of a script: the one given, else the one detected, normalized
MainSelectVersion ==
    /\ call.fn = "main" /\ call.at = "version"
    /\ call' = [call EXCEPT
                  !.at = "run",
                  !.python_version =
                      IF Truthy(call.python_version_arg)
                      THEN call.python_version_arg
                      ELSE NormalizeVersion(call.detected)]
    /\ UNCHANGED <<world, fs, out, pyenvVersions, pc, args, loc, log, prev, envTarget>>

\* run_in_docker, or create_environment and run_script.  create_environment
\* of a version that is not installed under its own name goes to
\* _find_system_python, whose split raises ValueError for a version without
\* a dot; the error reaches `except Exception` of main.
MainRun ==
    /\ call.fn = "main" /\ call.at = "run"
    /\ \E o \in ChildOutcomes :
         LET v == call.python_version
         IN  call' =
               IF call.use_docker = "yes"
               THEN Launch(call, "run_in_docker", o)
               ELSE LET c == [call EXCEPT !.env_name = EnvName(v)]
                    IN  IF /\ IsAlternativeInterpreter(v) = "none"
                           /\ ~call.installed
                           /\ ~SplitsIntoMajorMinor(v)
                        THEN Exit(c, 1, "ValueError")
                        ELSE Launch(c, "run_script", o)
    /\ UNCHANGED <<world, fs, out, pyenvVersions, pc, args, loc, log, prev, envTarget>>

NextCli ==
    \/ MainShell
    \/ MainCheckScript
    \/ MainConfig
    \/ MainSelectVersion
    \/ MainRun

SpecCli == InitCli /\ [][NextCli]_vars

\* a version was given with -p or by the configuration file
GivenVersion == IF Truthy(call.p) THEN call.p ELSE call.config

\* main has handed a version to create_environment
EngineCalled ==
    call.fn = "main" /\ call.at = "exit" /\ call.env_name # None

\* C35: a version given with -p or by the configuration file reaches
\* create_environment and run_script as its canonical identifier: the
\* environment is the one of the canonical form, and the engine does not fail
\* splitting the version into major and minor.
C35_ExplicitVersionNormalized ==
    (EngineCalled /\ Truthy(GivenVersion)) =>
        /\ call.python_version = NormalizeVersion(GivenVersion)
        /\ call.env_name = EnvName(NormalizeVersion(GivenVersion))
        /\ call.error # "ValueError"

\* an inferred version reaches the engine normalized
InferredVersionNormalized ==
    (EngineCalled /\ ~Truthy(GivenVersion)) =>
        /\ call.python_version = NormalizeVersion(call.detected)
        /\ call.error # "ValueError"

\* main, started with --shell, has exited
ShellExited == call.fn = "main" /\ call.shell /\ call.at = "exit"

\* main has called the launcher of the shell with the normalized version and
\* has exited with what the shell returned
ShellLaunched ==
    /\ call.python_version = NormalizeVersion(IF Truthy(call.p) THEN call.p ELSE V311)
    /\ call.launched = (IF call.docker THEN "run_shell_in_docker" ELSE "run_shell")
    /\ call.exit = call.rc

\* C36: main started with --shell does not exit before it has called
\* run_shell, or run_shell_in_docker when --docker is given, with the
\* normalized version (3.11 when none is given), and its exit code is the
\* return code of the shell.
C36_ShellModeReachesLauncher == ShellExited => ShellLaunched
----------------------------------------------------------------------------
(* download_and_install_python on its own *)

V20 == <<"2", ".", "0">>

\* the versions asked for: keys of the known table whose list holds the key
\* itself second (2.0, 3.0) or last (2.1), or not at all (2.7, 3.11), versions
\* the table does not hold (2.8, 3.16), and a full version
DownloadRequests ==
    {V20, <<"2", ".", "1">>, V27, <<"2", ".", "8">>, <<"3", ".", "0">>, V311,
     <<"3", ".", "1", "6">>, <<"2", ".", "7", ".", "1", "8">>}

\* download_and_install_python(version) is called on a machine that holds no
\* copy of the version
InitDownload ==
    /\ \E v \in DownloadRequests, pl \in {"linux", "darwin", "windows"} :
         world = [version |-> v, platform |-> pl, java |-> FALSE,
                  pyenv |-> FALSE, selfver |-> V311]
    /\ fs = {"selfexe"}
    /\ out = [BlankOut EXCEPT !["selfexe"] = O311]
    /\ pyenvVersions = {}
    /\ envTarget = NoTarget
    /\ pc = [p \in Procs |-> IF p = 1 THEN "i_download" ELSE "idle"]
    /\ args = [p \in Procs |-> InitArgs]
    /\ loc = [p \in Procs |-> InitLoc]
    /\ log = [p \in Procs |-> <<>>]
    /\ prev = [p \in Procs |-> NoCall]
    /\ call = NotCalled

\* the candidates of the request
Candidates == FindAvailableVersions(world.version)

\* the calls are followed until they have made more downloads than there are
\* candidates
FollowedFurther == Fetches(1) <= Len(Candidates)

NextDownload ==
    \/ FollowedFurther /\ DownloadAndInstallPython(1)
    \/ FollowedFurther /\ TryAlternativeDownloads(1)

SpecDownload == InitDownload /\ [][NextDownload]_vars

\* C38: the direct download makes at most one download attempt for each
\* candidate version: whatever the outcomes of the downloads, there are never
\* more attempts than candidates, and the step ends with True or False.
C38_OneDownloadPerCandidate ==
    Fetches(1) <= Len(Candidates)

\* the same for every request but 2.0 on Windows
OneDownloadPerCandidateBut20 ==
    ~(world.version = V20 /\ world.platform = "windows") =>
        Fetches(1) <= Len(Candidates)
----------------------------------------------------------------------------
(* run_script and the state of the parent process: os.environ, sys.stdout *)
(* and sys.stderr                                                          *)

EnvironNames == {"PATH", "APP_MODE", "PYTHONIOENCODING", "PYTHONUTF8"}

Unset == "unset"

\* os.environ when run_script is called
Environs ==
    { [n \in EnvironNames |->
          IF n = "PATH" THEN "/usr/bin"
          ELSE IF n = "PYTHONIOENCODING" THEN io ELSE Unset] :
      io \in {Unset, "ascii"} }

\* env_vars of the caller
Overrides ==
    { <<>>, [APP_MODE |-> "test"], [PATH |-> "/opt/bin", APP_MODE |-> "test"] }

\* dict.update
Update(mapping, other) ==
    [n \in DOMAIN mapping |-> IF n \in DOMAIN other THEN other[n] ELSE mapping[n]]

\* f"{encoding}:replace"
WithErrorsReplace(encoding) ==
    IF encoding = "utf-8" THEN "utf-8:replace" ELSE "cp1251:replace"

\* how the block from the swap of the streams to the end can go: the print
\* to the old stdout before `try`, and what subprocess.run does
AmbientOutcomes ==
    [announce : {"printed", "raises"},
     launch : {"0", "1", "OSError", "KeyboardInterrupt"},
     open : {"ok", "OSError"}]

InitAmbient ==
    /\ world = AnyMachine.world
    /\ fs = AnyMachine.fs
    /\ out = AnyMachine.out
    /\ pyenvVersions = AnyMachine.pyenvVersions
    /\ envTarget = NoTarget
    /\ InitProcs
    /\ \E environ \in Environs, env_vars \in Overrides,
          encoding \in {"none", "utf-8", "cp1251"},
          runtime \in {"jython", "python2", "python3"},
          log_file \in BOOLEAN, quiet \in BOOLEAN :
         call = [fn |-> "run_script", at |-> "environment",
                 runtime |-> runtime, jython |-> (runtime = "jython"),
                 env_vars |-> env_vars,
                 encoding |-> encoding, log_file |-> log_file,
                 quiet |-> quiet,
                 environ0 |-> environ, environ |-> environ,
                 env |-> [n \in EnvironNames |-> Unset],
                 stdout |-> "console", stderr |-> "console",
                 log |-> "closed", ended |-> "no"]

\* env = os.environ.copy(); env.update(env_vars); PYTHONIOENCODING, PYTHONUTF8
ChildEnvironment ==
    /\ call.fn = "run_script" /\ call.at = "environment"
    /\ LET copy == call.environ
           env1 == Update(copy, call.env_vars)
           env2 == IF call.encoding = "none" THEN env1
                   ELSE [env1 EXCEPT
                           !["PYTHONIOENCODING"] = WithErrorsReplace(call.encoding),
                           !["PYTHONUTF8"] =
                               IF call.runtime = "python3" /\ call.encoding = "utf-8"
                               THEN "1" ELSE @]
       IN  call' = [call EXCEPT !.env = env2, !.at = "log"]
    /\ UNCHANGED <<world, fs, out, pyenvVersions, pc, args, loc, log, prev, envTarget>>

\* the log file is opened and, outside Jython, sys.stdout and sys.stderr are
\* pointed at it; the path of the log is printed to the old stdout
OpenLog ==
    /\ call.fn = "run_script" /\ call.at = "log"
    /\ \E o \in AmbientOutcomes :
         call' =
           IF ~call.log_file THEN [call EXCEPT !.at = "launch"]
           ELSE IF o.open = "OSError"
           THEN [call EXCEPT !.at = "end", !.ended = "OSError"]
           ELSE IF call.jython
           THEN [call EXCEPT !.at = "launch", !.log = "open"]
           ELSE LET swapped == [call EXCEPT !.log = "open", !.stdout = "log",
                                            !.stderr = "log"]
                IN  IF ~call.quiet /\ o.announce = "raises"
                    THEN [swapped EXCEPT !.at = "end", !.ended = "BrokenPipeError"]
                    ELSE [swapped EXCEPT !.at = "launch"]
    /\ UNCHANGED <<world, fs, out, pyenvVersions, pc, args, loc, log, prev, envTarget>>

\* subprocess.run inside try / except Exception: the streams are put back
\* after the child has ended and in the except clause; KeyboardInterrupt is
\* no Exception and passes the clause by
LaunchChild ==
    /\ call.fn = "run_script" /\ call.at = "launch"
    /\ \E o \in AmbientOutcomes :
         call' =
           IF call.jython
           THEN [call EXCEPT !.at = "end", !.ended = o.launch,
                    !.log = IF call.log = "open" /\ o.launch \in {"0", "1"}
                            THEN "closed" ELSE @]
           ELSE IF o.launch = "KeyboardInterrupt"
           THEN [call EXCEPT !.at = "end", !.ended = o.launch]
           ELSE [call EXCEPT !.at = "end", !.ended = o.launch,
                    !.stdout = IF call.log = "open" THEN "console" ELSE @,
                    !.stderr = IF call.log = "open" THEN "console" ELSE @,
                    !.log = IF call.log = "open" THEN "closed" ELSE @]
    /\ UNCHANGED <<world, fs, out, pyenvVersions, pc, args, loc, log, prev, envTarget>>

NextAmbient ==
    \/ ChildEnvironment
    \/ OpenLog
    \/ LaunchChild

SpecAmbient == InitAmbient /\ [][NextAmbient]_vars

\* run_script has returned or raised
RunScriptEnded == call.fn = "run_script" /\ call.at = "end"

\* os.environ is what it was at every point of run_script
EnvironNeverModified ==
    call.fn = "run_script" => call.environ = call.environ0

\* the streams are the original ones after a return, and after an exception
\* of the class Exception raised by the launch or by the opening of the log
StreamsRestoredUnlessInterrupted ==
    (RunScriptEnded /\ call.ended \in {"0", "1", "OSError"}) =>
        call.stdout = "console" /\ call.stderr = "console"

\* C39: run_script leaves os.environ as it was, and with a log file
\* sys.stdout and sys.stderr are the original objects again when it has
\* returned and when it has raised.
C39_AmbientStateUnchanged ==
    /\ EnvironNeverModified
    /\ (RunScriptEnded /\ call.log_file) =>
           call.stdout = "console" /\ call.stderr = "console"

====
